---------------------------- MODULE Spec2Model ----------------------------
(***************************************************************************)
(* Model of code/model_src/fwrf_fit.py (fit_fwrf_model, _cofactor_fn_cpu,  *)
(* _loss_fn) together with the feature-loader protocol of                  *)
(* code/feature_extraction/bdcn_features.py.                               *)
(*                                                                         *)
(* Numbers are exact rationals <<num, den>> with den > 0, kept in lowest   *)
(* terms.  Two IEEE specials are kept: NaN == <<0, 0>> and Inf == <<1, 0>>.*)
(* NaN enters only through the voxel data, Inf only as the initial value   *)
(* of best_losses (np.inf); rounding and overflow are not modelled.        *)
(***************************************************************************)
EXTENDS Integers, Sequences, FiniteSets, TLC

\* ------------------------------------------------------------------ bounds
\* number of trials (images) of the fitting set
NTrials == 4
\* number of voxels
NVoxels == 3
\* number of candidate pRF models
NPrfs == 3
\* width of the loader's feature matrix (max_features)
MaxFeatures == 2

\* ---------------------------------------------------------------- numbers
NaN == <<0, 0>>
Inf == <<1, 0>>

Abs(i) == IF i < 0 THEN -i ELSE i

RECURSIVE GCD(_, _)
GCD(a, b) == IF b = 0 THEN a ELSE GCD(b, a % b)

\* the rational n/d (d # 0) in lowest terms with a positive denominator
Q(n, d) ==
    LET g == GCD(Abs(n), Abs(d))
        s == IF d < 0 THEN -1 ELSE 1
    IN  <<(s * n) \div g, (s * d) \div g>>

QInt(i) == <<i, 1>>
IsNaN(a) == a = NaN
IsFinite(a) == a[2] # 0

\* (whole numbers, den = 1, need no reduction)
QAdd(a, b) == IF a[2] = 1 /\ b[2] = 1 THEN <<a[1] + b[1], 1>>
              ELSE IF IsFinite(a) /\ IsFinite(b)
              THEN Q(a[1] * b[2] + b[1] * a[2], a[2] * b[2]) ELSE NaN
QSub(a, b) == IF a[2] = 1 /\ b[2] = 1 THEN <<a[1] - b[1], 1>>
              ELSE IF IsFinite(a) /\ IsFinite(b)
              THEN Q(a[1] * b[2] - b[1] * a[2], a[2] * b[2]) ELSE NaN
QMul(a, b) == IF a[2] = 1 /\ b[2] = 1 THEN <<a[1] * b[1], 1>>
              ELSE IF IsFinite(a) /\ IsFinite(b)
              THEN Q(a[1] * b[1], a[2] * b[2]) ELSE NaN
\* division by a finite non-zero number
QDiv(a, b) == IF IsFinite(a) /\ IsFinite(b) /\ b[1] # 0
              THEN Q(a[1] * b[2], a[2] * b[1]) ELSE NaN
\* IEEE "<": false as soon as one side is NaN; every finite number is < Inf
QLess(a, b) ==
    IF IsNaN(a) \/ IsNaN(b) THEN FALSE
    ELSE IF ~IsFinite(a) THEN FALSE
    ELSE IF ~IsFinite(b) THEN TRUE
    ELSE a[1] * b[2] < b[1] * a[2]

RECURSIVE QSum(_)
QSum(s) == IF s = <<>> THEN QInt(0) ELSE QAdd(Head(s), QSum(Tail(s)))

\* exact square root of a rational that is a perfect square
IsSquare(n) == \E r \in 0..n : r * r = n
ISqrt(n) == CHOOSE r \in 0..n : r * r = n
QSqrt(a) == <<ISqrt(a[1]), ISqrt(a[2])>>

\* --------------------------------------------------------------- matrices
\* a matrix is a sequence of rows; a row is a sequence of numbers
\* the sequence f with every element computed (a tuple, not a lazily applied function)
Vec(f) == f \o <<>>
RECURSIVE DotFrom(_, _, _)
DotFrom(u, v, i) ==
    IF i > Len(u) THEN QInt(0) ELSE QAdd(QMul(u[i], v[i]), DotFrom(u, v, i + 1))
Dot(u, v) == DotFrom(u, v, 1)
NCols(M) == IF M = <<>> THEN 0 ELSE Len(M[1])
Column(M, j) == Vec([i \in 1..Len(M) |-> M[i][j]])
\* torch.t
Transpose(M) == Vec([j \in 1..NCols(M) |-> Column(M, j)])
\* torch.mm
MatMul(A, B) ==
    LET BT == Transpose(B)
    IN  Vec([i \in 1..Len(A) |-> Vec([j \in 1..Len(BT) |-> Dot(A[i], BT[j])])])
\* torch.eye(n) * l
ScaledEye(n, l) == Vec([i \in 1..n |-> Vec([j \in 1..n |-> IF i = j THEN QInt(l) ELSE QInt(0)])])
MatAdd(A, B) == Vec([i \in 1..Len(A) |-> Vec([j \in 1..Len(A[i]) |-> QAdd(A[i][j], B[i][j])])])

\* the sequence s without its k-th element
Drop(s, k) == SubSeq(s, 1, k - 1) \o SubSeq(s, k + 1, Len(s))
Minor(M, r, c) ==
    LET R == Drop(M, r)
    IN  Vec([i \in 1..Len(R) |-> Drop(R[i], c)])

\* determinant: closed forms up to 2 x 2, expansion along the first row beyond
RECURSIVE Det(_)
Det(M) ==
    CASE Len(M) = 0 -> QInt(1)
      [] Len(M) = 1 -> M[1][1]
      [] Len(M) = 2 -> QSub(QMul(M[1][1], M[2][2]), QMul(M[1][2], M[2][1]))
      [] OTHER ->
           QSum(Vec([j \in 1..Len(M) |->
                 QMul(IF j % 2 = 1 THEN M[1][j] ELSE QSub(QInt(0), M[1][j]),
                      Det(Minor(M, 1, j)))]))

\* Tensor.inverse() of a square matrix (adjugate over determinant); a singular
\* matrix has no inverse: SingularMatrix stands for the RuntimeError torch raises
SingularMatrix == <<>>
Inverse(M) ==
    LET d == Det(M)
    IN  IF d = QInt(0) THEN SingularMatrix
        ELSE Vec([i \in 1..Len(M) |-> Vec([j \in 1..Len(M) |->
                QDiv(IF (i + j) % 2 = 0 THEN Det(Minor(M, j, i))
                     ELSE QSub(QInt(0), Det(Minor(M, j, i))), d)])])


\* ----------------------------------------------------------------- inputs
Min(a, b) == IF a < b THEN a ELSE b
Range(f) == {f[x] : x \in DOMAIN f}
\* python slices s[:k] and s[k:] for k >= 0
SliceTo(s, k) == SubSeq(s, 1, Min(k, Len(s)))
SliceFrom(s, k) == SubSeq(s, k + 1, Len(s))
\* s[inds]: the elements of s at the positions where the boolean index is true
RECURSIVE BoolIndex(_, _)
BoolIndex(s, inds) ==
    IF s = <<>> THEN <<>>
    ELSE (IF Head(inds) THEN <<Head(s)>> ELSE <<>>) \o BoolIndex(Tail(s), Tail(inds))
\* number of true entries of a boolean sequence
CountTrue(inds) == Len(BoolIndex(inds, inds))

Trials == 1..NTrials
Prfs == 0..(NPrfs - 1)

\* ridge penalties handed to fit_fwrf_model
lambdas == <<0, 1>>
LambdaInds == 0..(Len(lambdas) - 1)

\* Feature columns are two-valued block columns: value a on BlockLen
\* consecutive images (cyclically, from image j), 0 elsewhere.  BlockLen is
\* chosen so that the population standard deviation of such a column over
\* all NTrials images is rational, which keeps z-scoring exact.
BlockLen ==
    IF \E h \in 1..(NTrials - 1) : IsSquare(h * (NTrials - h))
    THEN CHOOSE h \in 1..(NTrials - 1) :
            /\ IsSquare(h * (NTrials - h))
            /\ \A g \in 1..(h - 1) : ~IsSquare(g * (NTrials - g))
    ELSE NTrials
BlockCol(j, a, img) == IF ((img - j) % NTrials) < BlockLen THEN QInt(a) ELSE QInt(0)

\* What a loader can produce for one candidate pRF: k defined columns
\* (k <= max_features), column f being the block column starting at image
\* j0 + f - 1 with value a.
FeatureKinds ==
    << [k |-> 1, j0 |-> 1, a |-> 1],
       [k |-> MaxFeatures, j0 |-> 1, a |-> 1],
       [k |-> 1, j0 |-> 1, a |-> 2],
       [k |-> 1, j0 |-> 2, a |-> 1] >>
\* a dead feature: one all-zero column
ZeroKind == [k |-> 1, j0 |-> 1, a |-> 0]
\* The feature content of a candidate grid.  In the cyclic grids candidate c
\* has the kind c + shift, so neighbouring candidates differ in width, scale
\* or position; in the uniform grid all candidates have the same features;
\* in the dead grid candidate 1 has the dead feature.
PrfGrids ==
    { [c \in Prfs |-> FeatureKinds[((c + shift) % Len(FeatureKinds)) + 1]] :
        shift \in 0..(Len(FeatureKinds) - 1) }
    \cup { [c \in Prfs |-> FeatureKinds[2]],
           [c \in Prfs |-> IF c = 1 THEN ZeroKind ELSE FeatureKinds[1]] }
\* the loader's feature matrix for the images in the order given: [trial][column]
LoaderFeatures(kind, imgs) ==
    Vec([t \in 1..Len(imgs) |->
            Vec([f \in 1..kind.k |-> BlockCol(kind.j0 + f - 1, kind.a, imgs[t])])])

\* voxel responses per image: a block response, a ramp, or a ramp with a NaN
VoxelKinds == <<"block", "ramp", "nan">>
VoxelValue(kind, img) ==
    CASE kind = "block" -> BlockCol(1, 1, img)
      [] kind = "ramp" -> QInt(img)
      [] OTHER -> IF img = 1 THEN NaN ELSE QInt(img)
\* the data sets: voxel v has the kind v + shift (cyclically), or, in the
\* data set without a NaN, alternately the ramp and the block kind
VoxelDataSets ==
    { Vec([t \in Trials |-> Vec([v \in 1..NVoxels |->
            VoxelValue(VoxelKinds[((v + shift) % Len(VoxelKinds)) + 1], t)])]) :
        shift \in 0..(Len(VoxelKinds) - 1) }
    \cup { Vec([t \in Trials |-> Vec([v \in 1..NVoxels |->
            VoxelValue(VoxelKinds[(v % 2) + 1], t)])]) }

\* trial orders np.random.shuffle can leave behind (three of the NTrials! ones)
Identity == [t \in Trials |-> t]
Orders == { [t \in Trials |-> (t % NTrials) + 1],
            [t \in Trials |-> NTrials + 1 - t] }

\* held-out sizes: a usable one, all trials, and more than all trials
HoldoutSizes == {1, NTrials, NTrials + 1}
BatchSizes == {1, NVoxels}

\* partial versions a loader can declare: [n_versions][max_features] masks and
\* names.  The first is the loader of bdcn_features.py, which has no clear_maps
\* method; the others offer clear_maps, with one and with two versions.
AllOnes == [f \in 1..MaxFeatures |-> TRUE]
LeaveOutLast == [f \in 1..MaxFeatures |-> f < MaxFeatures]
LoaderVersions ==
    { [masks |-> <<AllOnes>>, names |-> <<"full_model">>, clear_maps |-> FALSE],
      [masks |-> <<AllOnes>>, names |-> <<"full_model">>, clear_maps |-> TRUE],
      [masks |-> <<AllOnes, LeaveOutLast>>,
       names |-> <<"full_model", "leave_out_last">>, clear_maps |-> TRUE] }


\* --------------------------------------------------------- pure functions
\* a faulty variant of line 49: the slices come in the reverse of the lambda order
RidgeInversesReversed(x, lams) ==
    LET xtx == MatMul(Transpose(x), x)
    IN  Vec([li \in 1..Len(lams) |->
                Inverse(MatAdd(xtx, ScaledEye(NCols(x), lams[Len(lams) + 1 - li])))])
\* _cofactor_fn_cpu, line 49: the stack _f of (X^T X + I*l)^-1, one per lambda
RidgeInverses(x, lams) ==
    LET xtx == MatMul(Transpose(x), x)
    IN  Vec([li \in 1..Len(lams) |->
                Inverse(MatAdd(xtx, ScaledEye(NCols(x), lams[li])))])
\* a faulty variant: a singular system is passed over and the run goes on
CofactorNeverRaises(f) == FALSE
\* the inversion raised for some lambda
CofactorRaises(f) == \E li \in 1..Len(f) : f[li] = SingularMatrix
\* _cofactor_fn_cpu, line 52: [lambda][feature][trial], (X^T X + I*l)^-1 X^T
CofactorFnCpu(f, x) == Vec([li \in 1..Len(f) |-> MatMul(f[li], Transpose(x))])

\* _loss_fn: betas [lambda][feature][voxel] and SSE loss [lambda][voxel]
LossFnBeta(cofactor, vtrn) == Vec([li \in 1..Len(cofactor) |-> MatMul(cofactor[li], vtrn)])
SqResidual(a, b) == LET r == QSub(a, b) IN QMul(r, r)
\* a faulty variant of line 69: the mean over the held-out trials
LossFnLossMean(beta, xout, vout) ==
    Vec([li \in 1..Len(beta) |->
        LET pred == MatMul(xout, beta[li])
        IN  Vec([v \in 1..NCols(vout) |->
                QDiv(QSum(Vec([t \in 1..Len(vout) |-> SqResidual(vout[t][v], pred[t][v])])),
                     QInt(Len(vout)))])])
\* line 69: the sum over the held-out trials of the squared residuals
LossFnLoss(beta, xout, vout) ==
    Vec([li \in 1..Len(beta) |->
        LET pred == MatMul(xout, beta[li])
        IN  Vec([v \in 1..NCols(vout) |->
                QSum(Vec([t \in 1..Len(vout) |-> SqResidual(vout[t][v], pred[t][v])]))])])
LossFn(cofactor, vtrn, xout, vout) ==
    LET beta == LossFnBeta(cofactor, vtrn)
    IN  [beta |-> beta, loss |-> LossFnLoss(beta, xout, vout)]

\* torch.min(_loss, dim=0) for one voxel: NaN wins if present, else the first minimum;
\* the index is 0-based
TorchMinIndex(col) ==
    IF \E li \in 1..Len(col) : IsNaN(col[li])
    THEN (CHOOSE li \in 1..Len(col) :
            IsNaN(col[li]) /\ \A lj \in 1..(li - 1) : ~IsNaN(col[lj])) - 1
    ELSE (CHOOSE li \in 1..Len(col) :
            /\ \A lj \in 1..Len(col) : ~QLess(col[lj], col[li])
            /\ \A lj \in 1..(li - 1) : QLess(col[li], col[lj])) - 1
\* a faulty variant of torch.min: the minimal value with the index of the first lambda
TorchMinFirstIndex(loss, v) ==
    LET col == Vec([li \in 1..Len(loss) |-> loss[li][v]])
    IN  [value |-> col[TorchMinIndex(col) + 1], index |-> 0]
\* a faulty variant: every voxel of a batch takes the minimum of the batch's
\* first voxel
TorchMinOfFirstVoxel(loss, v) ==
    LET col == Vec([li \in 1..Len(loss) |-> loss[li][1]])
        ix == TorchMinIndex(col)
    IN  [value |-> col[ix + 1], index |-> ix]
TorchMin(loss, v) ==
    LET col == Vec([li \in 1..Len(loss) |-> loss[li][v]])
        ix == TorchMinIndex(col)
    IN  [value |-> col[ix + 1], index |-> ix]

\* np.mean / np.std (population) of a column, over the rows given
ColMean(col) == QDiv(QSum(col), QInt(Len(col)))
ColStd(col) ==
    LET mu == ColMean(col)
    IN  QSqrt(QDiv(QSum(Vec([t \in 1..Len(col) |-> SqResidual(col[t], mu)])), QInt(Len(col))))
\* (x - mean) / (std + 1e-6): the epsilon only matters for a constant column,
\* where the quotient is 0
ZScoreValue(x, mu, sd) == IF sd = QInt(0) THEN QInt(0) ELSE QDiv(QSub(x, mu), sd)

\* the columns of M selected by a boolean index
SelectCols(M, inds) == Vec([t \in 1..Len(M) |-> BoolIndex(M[t], inds)])
\* the columns of M for a list of (1-based) column numbers
TakeCols(M, cols) == Vec([t \in 1..Len(M) |-> Vec([i \in 1..Len(cols) |-> M[t][cols[i]]])])
\* a[inds] = vals; a[~inds] = 0 on a fresh row of Len(inds) entries
RECURSIVE Scatter(_, _)
Scatter(inds, vals) ==
    IF inds = <<>> THEN <<>>
    ELSE IF Head(inds) THEN <<Head(vals)>> \o Scatter(Tail(inds), Tail(vals))
    ELSE <<QInt(0)>> \o Scatter(Tail(inds), vals)

\* numpy_utils.select_along_axis(betas, lambda_inds, run_axis=2, choice_axis=0)
\* for one voxel: the betas of the voxel at position i for its lambda index
SelectAlongAxis(beta, lambda_index, i) ==
    Vec([c \in 1..Len(beta[lambda_index + 1]) |-> beta[lambda_index + 1][c][i]])

\* numpy_utils.iterate_range(0, n, batchsize), with voxels numbered from 1
NBatches(n, batchsize) == (n \div batchsize) + (IF n % batchsize > 0 THEN 1 ELSE 0)
BatchRange(n, batchsize, i) ==
    LET first == i * batchsize + 1
        last == Min((i + 1) * batchsize, n)
    IN  Vec([j \in 1..(last - first + 1) |-> first + j - 1])


\* ------------------------------------------------------------------ state
\* Candidate models, partial versions and lambda indices are numbered from 0
\* as in the source (they are stored, with -1 as the "none yet" value);
\* trials, feature columns and voxels are sequence positions, from 1.
VARIABLES
    args,                 \* zscore, add_bias, debug, shuffle, voxel_batch_size, holdout_size
    loader,               \* the feature loader: features per candidate, declared
                          \* versions, inited, n_comp_needed
    pc,                   \* position in fit_fwrf_model
    err,                  \* the exception that ended the run, "" if none
    order,                \* trial permutation
    images,               \* images[order]: image id per trial
    voxel_data,           \* [trial][voxel], reordered by order in SplitTrials
    trn_size,
    masks,                \* [column][version], after the bias row and the transpose
    partial_version_names,
    best_w_params,        \* [voxel][column][version]
    best_prf_models,      \* [voxel][version]
    best_lambdas,         \* [voxel][version]
    best_losses,          \* [voxel][version]
    features_mean,        \* [voxel][feature], <<>> when zscore is off
    features_std,
    m,                    \* candidate model of the outer loop
    features,             \* [trial][column] after z-scoring and bias augmentation
    feature_inds_defined,
    features_m,           \* per-column mean / std used by the z-scoring of candidate m
    features_s,
    full_model_improved,  \* [voxel]
    pp,                   \* partial version of the inner loop
    cof,                  \* _cof of (m, pp)
    vi,                   \* voxel batch, from 0
    result                \* what fit_fwrf_model returned, <<>> before

vars == <<args, loader, pc, err, order, images, voxel_data, trn_size, masks,
          partial_version_names, best_w_params, best_prf_models, best_lambdas,
          best_losses, features_mean, features_std, m, features,
          feature_inds_defined, features_m, features_s, full_model_improved,
          pp, cof, vi, result>>

setupVars == <<order, images, voxel_data, trn_size>>
allocVars == <<masks, partial_version_names>>
bestVars == <<best_w_params, best_prf_models, best_lambdas, best_losses,
              features_mean, features_std>>
candVars == <<features, feature_inds_defined, features_m, features_s>>

n_trials == Len(images)
n_prfs == NPrfs
n_voxels == NVoxels
max_features == MaxFeatures
n_partial_versions == Len(partial_version_names)
Versions == 0..(n_partial_versions - 1)

trn_data == SliceTo(voxel_data, trn_size)
\* a faulty variant of line 134: the held-out block cut at holdout_size
out_data_at_holdout_size == SliceFrom(voxel_data, args.holdout_size)
out_data == SliceFrom(voxel_data, trn_size)
trn_features == SliceTo(features, trn_size)
out_features == SliceFrom(features, trn_size)

MaskCol(p) == Vec([c \in 1..Len(masks) |-> masks[c][p]])
\* a faulty variant of line 216: only feature columns can be active
nonzero_inds_features_only(p) ==
    Vec([c \in 1..Len(masks) |-> masks[c][p] /\ feature_inds_defined[c] /\ c <= max_features])
\* np.logical_and(masks[:,pp], feature_inds_defined)
nonzero_inds_full(p) == Vec([c \in 1..Len(masks) |-> masks[c][p] /\ feature_inds_defined[c]])
\* masks[feature_inds_defined,pp]==1
nonzero_inds_short(p) == BoolIndex(MaskCol(p), feature_inds_defined)
\* s[0:-1]
DropLast(s) == SubSeq(s, 1, Len(s) - 1)

Init ==
    /\ args \in [zscore : BOOLEAN, add_bias : BOOLEAN, debug : BOOLEAN,
                 shuffle : BOOLEAN, voxel_batch_size : BatchSizes,
                 holdout_size : HoldoutSizes]
    /\ \E lv \in LoaderVersions, grid \in PrfGrids :
          loader = [kinds |-> grid, versions |-> lv, inited |-> FALSE,
                    n_comp_needed |-> <<>>]
    /\ voxel_data \in VoxelDataSets
    /\ images = Identity
    /\ order = <<>>
    /\ pc = "split"
    /\ err = ""
    /\ trn_size = 0
    /\ masks = <<>>
    /\ partial_version_names = <<>>
    /\ best_w_params = <<>>
    /\ best_prf_models = <<>>
    /\ best_lambdas = <<>>
    /\ best_losses = <<>>
    /\ features_mean = <<>>
    /\ features_std = <<>>
    /\ m = 0
    /\ features = <<>>
    /\ feature_inds_defined = <<>>
    /\ features_m = <<>>
    /\ features_s = <<>>
    /\ full_model_improved = <<>>
    /\ pp = 0
    /\ cof = <<>>
    /\ vi = 0
    /\ result = <<>>

\* a faulty variant of the assertion of line 121: an empty training block passes
TrainingSizeNotNegative(trnsize) == trnsize >= 0
\* line 121: assert trn_size>0
TrainingSizeOk(trnsize) == trnsize > 0

\* lines 113-134: the split point and the one trial permutation of the run
SplitTrials ==
    /\ pc = "split"
    /\ trn_size' = n_trials - args.holdout_size
    /\ IF TrainingSizeOk(trn_size')
       THEN /\ \E o \in (IF args.shuffle THEN Orders ELSE {Identity}) :
                 /\ order' = o
                 /\ images' = [t \in Trials |-> images[o[t]]]
                 /\ voxel_data' = [t \in Trials |-> voxel_data[o[t]]]
            /\ pc' = "init_for_fitting"
            /\ err' = ""
       ELSE /\ pc' = "error"
            /\ err' = "AssertionError: Training size needs to be greater than zero"
            /\ UNCHANGED <<order, images, voxel_data>>
    /\ UNCHANGED <<args, loader, allocVars, bestVars, m, candVars,
                   full_model_improved, pp, cof, vi, result>>

\* line 139, bdcn_features.py 56-88: the loader learns the candidates
InitForFitting ==
    /\ pc = "init_for_fitting"
    /\ loader' = [loader EXCEPT !.inited = TRUE,
                                !.n_comp_needed = [c \in Prfs |-> -1]]
    /\ pc' = "get_partial_versions"
    /\ UNCHANGED <<args, err, setupVars, allocVars, bestVars, m, candVars,
                   full_model_improved, pp, cof, vi, result>>

\* a faulty variant of the allocation: the integer arrays start at zero
ZerosInt(nv, fill_value) == [v \in 1..n_voxels |-> [p \in 0..(nv - 1) |-> 0]]
\* lines 154-155: np.full(shape=(n_voxels, n_partial_versions), fill_value, dtype=int)
FullInt(nv, fill_value) == [v \in 1..n_voxels |-> [p \in 0..(nv - 1) |-> fill_value]]

\* lines 144-166: the version masks and the arrays of the best state
GetPartialVersions ==
    /\ pc = "get_partial_versions"
    /\ IF ~loader.inited
       THEN /\ pc' = "error"
            /\ err' = "RuntimeError: need to run init_for_fitting first"
            /\ UNCHANGED <<allocVars, bestVars>>
       ELSE LET lm == loader.versions.masks
                nv == Len(loader.versions.names)
                ncol == max_features + (IF args.add_bias THEN 1 ELSE 0)
            IN  /\ partial_version_names' = loader.versions.names
                /\ masks' = [c \in 1..ncol |-> [p \in 0..(nv - 1) |->
                                IF c <= max_features THEN lm[p + 1][c] ELSE TRUE]]
                /\ best_w_params' = [v \in 1..n_voxels |-> [c \in 1..ncol |->
                                        [p \in 0..(nv - 1) |->
                                            IF c <= max_features THEN QInt(0) ELSE QInt(1)]]]
                /\ best_prf_models' = FullInt(nv, -1)
                /\ best_lambdas' = FullInt(nv, -1)
                /\ best_losses' = [v \in 1..n_voxels |-> [p \in 0..(nv - 1) |-> Inf]]
                /\ features_mean' = IF args.zscore
                                    THEN [v \in 1..n_voxels |-> [f \in 1..max_features |-> QInt(0)]]
                                    ELSE <<>>
                /\ features_std' = features_mean'
                /\ pc' = "extract"
                /\ err' = ""
    /\ UNCHANGED <<args, loader, setupVars, m, candVars, full_model_improved,
                   pp, cof, vi, result>>


\* a faulty variant of the loop head: the last candidate is left out
LoopStopsEarly == m < n_prfs - 1 /\ ~(args.debug /\ m > 1)
\* line 176-178: the outer loop goes on while candidates are left (two in debug mode)
LoopContinues == m < n_prfs /\ ~(args.debug /\ m > 1)

\* lines 193-194: the rows the z-score statistics are taken over (all of them)
ZScoreStatRows(feats, trnsize) == feats

\* bdcn_features.py lines 180-181: the first n of the maxf columns are defined
\* (a slice beyond the end is clipped)
DefinedMask(maxf, n) == Vec([f \in 1..maxf |-> f <= n])
LoaderDefined(n) == DefinedMask(MaxFeatures, n)

\* lines 185-203: the feature matrix of a candidate with the features of the
\* given kind, z-scored and bias-augmented as the options say, its defined
\* mask, and the statistics of the z-scoring
CandidateFeatures(kind, imgs, trnsize, zscore, add_bias) ==
    LET raw == LoaderFeatures(kind, imgs)
        n_features_actual == NCols(raw)
        stat == ZScoreStatRows(raw, trnsize)
        mu == Vec([f \in 1..n_features_actual |-> ColMean(Column(stat, f))])
        sd == Vec([f \in 1..n_features_actual |-> ColStd(Column(stat, f))])
        scored == IF zscore
                  THEN Vec([t \in 1..Len(raw) |-> Vec([f \in 1..n_features_actual |->
                            ZScoreValue(raw[t][f], mu[f], sd[f])])])
                  ELSE raw
        ones == IF add_bias THEN <<QInt(1)>> ELSE <<>>
    IN  [features |-> Vec([t \in 1..Len(raw) |-> scored[t] \o ones]),
         feature_inds_defined |->
             LoaderDefined(n_features_actual) \o (IF add_bias THEN <<TRUE>> ELSE <<>>),
         features_m |-> IF zscore THEN mu ELSE <<>>,
         features_s |-> IF zscore THEN sd ELSE <<>>,
         n_features_actual |-> n_features_actual]

\* lines 185-209: features of candidate m, z-scored and bias-augmented
Extract ==
    /\ pc = "extract"
    /\ LoopContinues
    /\ IF loader.n_comp_needed[m] # -1
       THEN /\ pc' = "error"
            /\ err' = "AssertionError: pca was already fit for this pRF"
            /\ UNCHANGED <<loader, candVars, full_model_improved, pp>>
       ELSE \E cf \in {CandidateFeatures(loader.kinds[m], images, trn_size,
                                          args.zscore, args.add_bias)} :
                /\ loader' = [loader EXCEPT !.n_comp_needed[m] = cf.n_features_actual]
                /\ features' = cf.features
                /\ feature_inds_defined' = cf.feature_inds_defined
                /\ features_m' = cf.features_m
                /\ features_s' = cf.features_s
                /\ full_model_improved' = [v \in 1..n_voxels |-> FALSE]
                /\ pp' = 0
                /\ pc' = "cofactor"
                /\ err' = ""
    /\ UNCHANGED <<args, setupVars, allocVars, bestVars, m, cof, vi, result>>

\* lines 212-225: active columns of (m, pp) and the ridge cofactor for all lambdas
Cofactor ==
    /\ pc = "cofactor"
    /\ LET xtrn == SelectCols(trn_features, nonzero_inds_short(pp))
       IN  \E f \in {RidgeInverses(xtrn, lambdas)} :
           IF CofactorRaises(f)
           THEN /\ pc' = "error"
                /\ err' = "RuntimeError: singular matrix"
                /\ UNCHANGED <<cof, vi>>
           ELSE /\ cof' = CofactorFnCpu(f, xtrn)
                /\ vi' = 0
                /\ pc' = "batch"
                /\ err' = ""
    /\ UNCHANGED <<args, loader, setupVars, allocVars, bestVars, m, candVars,
                   full_model_improved, pp, result>>

\* faulty variants of the comparison of line 253: "<=" instead of "<", and
\* "not worse", which a NaN loss passes
ImprovedOrEqual(loss_value, best) ==
    ~IsNaN(loss_value) /\ ~IsNaN(best) /\ ~QLess(best, loss_value)
ImprovedNotWorse(loss_value, best) == ~QLess(best, loss_value)
\* line 253: strictly lower held-out loss than the recorded best
Improved(loss_value, best) == QLess(loss_value, best)
\* faulty variants of the flag of lines 249-260: a partial version decides on
\* its own loss; it needs its own loss to improve as well; it always updates
ImpFlagOwnLoss(p, loss_value, best, full_flag) == Improved(loss_value, best)
ImpFlagBoth(p, loss_value, best, full_flag) ==
    IF p = 0 THEN Improved(loss_value, best)
    ELSE full_flag /\ Improved(loss_value, best)
ImpFlagAlways(p, loss_value, best, full_flag) ==
    IF p = 0 THEN Improved(loss_value, best) ELSE TRUE
\* a further faulty variant: a partial version is never updated
ImpFlagFullOnly(p, loss_value, best, full_flag) ==
    IF p = 0 THEN Improved(loss_value, best) ELSE FALSE
\* lines 249-260: the improvement flag of one voxel for version p
ImpFlag(p, loss_value, best, full_flag) ==
    IF p = 0 THEN Improved(loss_value, best) ELSE full_flag
\* row[inds] = vals: the row with its entries at the true positions replaced
RECURSIVE Overlay(_, _, _)
Overlay(row, inds, vals) ==
    IF inds = <<>> THEN <<>>
    ELSE IF Head(inds)
    THEN <<Head(vals)>> \o Overlay(Tail(row), Tail(inds), Tail(vals))
    ELSE <<Head(row)>> \o Overlay(Tail(row), Tail(inds), vals)
\* row[~inds] = 0.0
ZeroFill(row, inds) == Vec([c \in 1..Len(row) |-> IF inds[c] THEN row[c] ELSE QInt(0)])
\* a faulty variant of the weight update: line 288 left out
NewWeightsNoZeroFill(old, inds_full, betas_sel) == Overlay(old, inds_full, betas_sel)
\* lines 286-288: the weights of an improved voxel: a copy of the old row, the
\* selected betas at the active columns, zero everywhere else
NewWeights(old, inds_full, betas_sel) ==
    ZeroFill(Overlay(old, inds_full, betas_sel), inds_full)
\* lines 277-280: statistics of an improved voxel, zero outside the active columns
NewStats(inds_full, inds_short, stats) ==
    Scatter(DropLast(inds_full), BoolIndex(stats, DropLast(inds_short)))

\* lines 230-294: one voxel batch of (m, pp)
FitBatch ==
    /\ pc = "batch"
    /\ LET rv == BatchRange(n_voxels, args.voxel_batch_size, vi)
           pos(v) == v - rv[1] + 1
           vtrn == TakeCols(trn_data, rv)
           vout == TakeCols(out_data, rv)
           xout == SelectCols(out_features, nonzero_inds_short(pp))
       IN
       \* (bound once: the loss function is evaluated a single time per batch)
       \E lf \in {LossFn(cof, vtrn, xout, vout)} :
       LET mn == Vec([i \in 1..Len(rv) |-> TorchMin(lf.loss, i)])
           imp == Vec([i \in 1..Len(rv) |->
                      ImpFlag(pp, mn[i].value, best_losses[rv[i]][pp],
                              full_model_improved[rv[i]])])
           arv == {rv[i] : i \in {j \in 1..Len(rv) : imp[j]}}
           inds_full == nonzero_inds_full(pp)
           inds_short == nonzero_inds_short(pp)
           betas_sel(v) == SelectAlongAxis(lf.beta, mn[pos(v)].index, pos(v))
           last_batch == vi + 1 >= NBatches(n_voxels, args.voxel_batch_size)
           last_version == pp + 1 >= n_partial_versions
       IN  IF pp = 0 /\ partial_version_names[pp + 1]
                           \notin {"full_model", "full_combined_model"}
           THEN /\ pc' = "error"
                /\ err' = "AssertionError: version 0 is not the full model"
                /\ UNCHANGED <<bestVars, full_model_improved, m, pp, vi>>
           ELSE /\ full_model_improved' =
                      IF pp = 0
                      THEN [v \in 1..n_voxels |->
                              IF v \in Range(rv) THEN imp[pos(v)]
                              ELSE full_model_improved[v]]
                      ELSE full_model_improved
                /\ best_lambdas' = [v \in 1..n_voxels |->
                      IF v \in arv THEN [best_lambdas[v] EXCEPT ![pp] = mn[pos(v)].index]
                      ELSE best_lambdas[v]]
                /\ best_losses' = [v \in 1..n_voxels |->
                      IF v \in arv THEN [best_losses[v] EXCEPT ![pp] = mn[pos(v)].value]
                      ELSE best_losses[v]]
                /\ best_prf_models' = [v \in 1..n_voxels |->
                      IF v \in arv THEN [best_prf_models[v] EXCEPT ![pp] = m]
                      ELSE best_prf_models[v]]
                /\ IF arv # {} /\ args.zscore /\ ~args.add_bias
                   THEN \* line 277: the boolean index is one short of max_features
                        /\ pc' = "error"
                        /\ err' = "IndexError: boolean index did not match"
                        /\ UNCHANGED <<best_w_params, features_mean, features_std,
                                       m, pp, vi>>
                   ELSE /\ features_mean' =
                              IF args.zscore
                              THEN [v \in 1..n_voxels |->
                                      IF v \in arv
                                      THEN NewStats(inds_full, inds_short, features_m)
                                      ELSE features_mean[v]]
                              ELSE features_mean
                        /\ features_std' =
                              IF args.zscore
                              THEN [v \in 1..n_voxels |->
                                      IF v \in arv
                                      THEN NewStats(inds_full, inds_short, features_s)
                                      ELSE features_std[v]]
                              ELSE features_std
                        /\ best_w_params' = [v \in 1..n_voxels |->
                              IF v \in arv
                              THEN LET old == Vec([c \in 1..Len(masks) |->
                                                    best_w_params[v][c][pp]])
                                       w == NewWeights(old, inds_full, betas_sel(v))
                                   IN  [c \in 1..Len(masks) |->
                                          [best_w_params[v][c] EXCEPT ![pp] = w[c]]]
                              ELSE best_w_params[v]]
                        /\ err' = ""
                        /\ IF ~last_batch
                           THEN /\ vi' = vi + 1
                                /\ pc' = "batch"
                                /\ UNCHANGED <<m, pp>>
                           ELSE IF ~last_version
                           THEN /\ pp' = pp + 1
                                /\ pc' = "cofactor"
                                /\ UNCHANGED <<m, vi>>
                           ELSE /\ m' = m + 1
                                /\ pc' = "extract"
                                /\ UNCHANGED <<pp, vi>>
    /\ UNCHANGED <<args, loader, setupVars, allocVars, candVars, cof, result>>

\* prf_models[i] for an index array entry i: a negative index counts from the end
PrfRow(i) == IF i < 0 THEN n_prfs + i ELSE i

\* lines 300-320: the loop is over; the best state is handed back
Return ==
    /\ pc = "extract"
    /\ ~LoopContinues
    /\ IF ~loader.versions.clear_maps
       THEN \* line 315: the loader has no such method
            /\ pc' = "error"
            /\ err' = "AttributeError: clear_maps"
            /\ UNCHANGED result
       ELSE /\ err' = ""
            /\ pc' = "done"
            /\ result' = [best_losses |-> best_losses,
                          best_lambdas |-> best_lambdas,
                          best_prf_rows |-> [v \in 1..n_voxels |->
                                               [p \in Versions |-> PrfRow(best_prf_models[v][p])]],
                          best_w_params |-> [v \in 1..n_voxels |-> SliceTo(best_w_params[v], max_features)],
                          best_bias |-> IF args.add_bias
                                        THEN [v \in 1..n_voxels |-> best_w_params[v][Len(masks)]]
                                        ELSE <<>>,
                          features_mean |-> features_mean,
                          features_std |-> features_std,
                          best_prf_models |-> best_prf_models]
    /\ UNCHANGED <<args, loader, setupVars, allocVars, bestVars, m, candVars,
                   full_model_improved, pp, cof, vi>>

Next ==
    \/ SplitTrials
    \/ InitForFitting
    \/ GetPartialVersions
    \/ Extract
    \/ Cofactor
    \/ FitBatch
    \/ Return

Spec == Init /\ [][Next]_vars



\* ------------------------------------------------ the bdcn loader on its own
\* The loader of bdcn_features.py as an object a client calls in any order:
\* init_for_fitting, get_partial_versions, forward (fitting or validation
\* mode) and clear_big_features.  A call returns or raises; the object lives
\* on after a raise.  loader holds the object, args the last call, pc and err
\* its outcome, features / feature_inds_defined what forward returned and
\* result what get_partial_versions returned.

\* Trial patterns of the raw feature columns.  Column j of a raw matrix is
\* mu + s * Hadamard[j] with s > 0: the centred columns are orthogonal, so the
\* principal components are the coordinate axes in the order of decreasing
\* variance and the decomposition is exact.
Hadamard == << <<1, 1, -1, -1>>, <<1, -1, 1, -1>>, <<1, -1, -1, 1>> >>
RawKinds ==
    << << [mu |-> 1, s |-> 3] >>,
       << [mu |-> 0, s |-> 1], [mu |-> 2, s |-> 3] >>,
       << [mu |-> 1, s |-> 3], [mu |-> 0, s |-> 2], [mu |-> 1, s |-> 1] >> >>
\* the cropped, flattened maps of a candidate for the fitting images ("trn")
\* or for other images ("val"): [trial][raw feature]
RawMatrix(cols, imgs) ==
    LET shift == IF imgs = "val" THEN 1 ELSE 0
    IN  Vec([t \in 1..Len(Hadamard[1]) |-> Vec([j \in 1..Len(cols) |->
            QInt(cols[j].mu + shift + (cols[j].s + shift) * Hadamard[j][t])])])

\* the positions of a sequence of numbers in the order of decreasing value
\* (the first of equal values first)
RECURSIVE SortDescFrom(_, _)
SortDescFrom(vals, left) ==
    IF left = {} THEN <<>>
    ELSE LET top == CHOOSE i \in left :
                      \A j \in left : \/ QLess(vals[j], vals[i])
                                      \/ (vals[j] = vals[i] /\ i <= j)
         IN  <<top>> \o SortDescFrom(vals, left \ {top})
SortDesc(vals) == SortDescFrom(vals, 1..Len(vals))

\* decomposition.PCA(n_components = ncomp).fit_transform(raw) for a matrix
\* whose centred columns are orthogonal: mean_, components_ (the sign makes
\* the first score of a component positive), explained_variance_ (n - 1 in
\* the denominator) and the scores
PcaFitTransform(raw, ncomp) ==
    LET n == Len(raw)
        k == NCols(raw)
        mean == Vec([j \in 1..k |-> ColMean(Column(raw, j))])
        cen == Vec([t \in 1..n |-> Vec([j \in 1..k |-> QSub(raw[t][j], mean[j])])])
        var == Vec([j \in 1..k |->
                  QDiv(QSum(Vec([t \in 1..n |-> QMul(cen[t][j], cen[t][j])])),
                       QInt(n - 1))])
        ord == SortDesc(var)
        sgn(j) == IF QLess(cen[1][j], QInt(0)) THEN -1 ELSE 1
    IN  [mean |-> mean,
         components |-> Vec([i \in 1..ncomp |-> Vec([j \in 1..k |->
                            IF j = ord[i] THEN QInt(sgn(j)) ELSE QInt(0)])]),
         explained_variance |-> Vec([i \in 1..ncomp |-> var[ord[i]]]),
         scores |-> Vec([t \in 1..n |-> Vec([i \in 1..ncomp |->
                        QMul(QInt(sgn(ord[i])), cen[t][ord[i]])])])]

\* np.cumsum
CumSum(vals) == Vec([i \in 1..Len(vals) |-> QSum(SubSeq(vals, 1, i))])
\* bdcn_features.py line 224: the index of the first cumulative percentage
\* above min_pct_var, or len(ev) if there is none
NComponentsReduced(ev, min_pct_var) ==
    LET cs == CumSum(ev)
        above == {i \in 1..Len(cs) : QLess(QInt(min_pct_var), cs[i])}
    IN  IF above # {}
        THEN (CHOOSE i \in above : \A j \in above : i <= j) - 1
        ELSE Len(ev)

\* loader configurations: with reduction (three thresholds, two limits of
\* retained components) or without
MinPctVars == {50, 95, 100}
MaxPcs == {1, MaxFeatures}
\* what the maps give candidate c (raw kind c + shift, cyclically), and the
\* width init_for_fitting computes for it from the image size: the width of
\* the raw matrix, or for candidate 1 one more
LoaderRaw(shift) == [c \in Prfs |-> RawKinds[((c + shift) % Len(RawKinds)) + 1]]
LoaderDeclared(raw, off) ==
    [c \in Prfs |-> Len(raw[c]) + (IF off /\ c = 1 THEN 1 ELSE 0)]
LoaderConfigs ==
    { [do_pca |-> TRUE, min_pct_var |-> mp, max_pc_to_retain |-> mx,
       raw |-> LoaderRaw(shift), declared |-> LoaderDeclared(LoaderRaw(shift), off)] :
        mp \in MinPctVars, mx \in MaxPcs, shift \in 0..(Len(RawKinds) - 1),
        off \in BOOLEAN }
    \cup
    { [do_pca |-> FALSE, min_pct_var |-> -1, max_pc_to_retain |-> -1,
       raw |-> LoaderRaw(shift), declared |-> LoaderDeclared(LoaderRaw(shift), off)] :
        shift \in 0..(Len(RawKinds) - 1), off \in BOOLEAN }

\* bdcn_features.py line 196: the raw width is the declared one
WidthAsDeclared(ld, idx, n_features_actual) == n_features_actual = ld.n_feat_each_prf[idx]
\* a faulty variant of the assertion of line 205: nothing is asserted
NeverFitUnchecked(ld, idx) == TRUE
\* bdcn_features.py line 205: the reduction of idx has not been fit
NeverFit(ld, idx) == ld.n_comp_needed[idx] = -1

\* a faulty variant of the assertion of line 236: nothing is asserted
WasFitUnchecked(ld, idx) == TRUE
\* bdcn_features.py line 236: the reduction of idx has been fit
WasFit(ld, idx) == ld.n_comp_needed[idx] # -1

\* the first n entries of row replaced by vals[1..n]
Prefixed(row, vals, n) == SubSeq(vals, 1, n) \o SubSeq(row, n + 1, Len(row))

\* bdcn_features.py lines 186-245, reduce_pca: the error raised ("" if
\* none), the loader afterwards and the reduced features.  pct_var_expl is
\* kept per candidate: pct_var_expl[idx][i] is the source's [i, idx].
ReducePca(ld, feats, idx, fitting_mode) ==
    LET n == Len(feats)
        n_features_actual == NCols(feats)
        raised(e) == [err |-> e, loader |-> ld, features |-> <<>>]
    IN  IF ~WidthAsDeclared(ld, idx, n_features_actual)
        THEN raised("AssertionError: n_features_actual == n_feat_each_prf")
        ELSE IF fitting_mode
        THEN IF ~NeverFit(ld, idx)
             THEN raised("AssertionError: n_comp_needed == -1")
             ELSE LET ncomp == Min(Min(ld.max_pc_to_retain, n_features_actual), n)
                      pca == PcaFitTransform(feats, ncomp)
                      total == QSum(pca.explained_variance)
                      ev == Vec([i \in 1..ncomp |->
                                QMul(QDiv(pca.explained_variance[i], total), QInt(100))])
                      n_components_actual == Min(ncomp, ld.max_pc_to_retain)
                      n_components_reduced == NComponentsReduced(ev, ld.min_pct_var)
                      stored ==
                          [ld EXCEPT
                             !.pca_wts[idx] = Prefixed(@, pca.components, n_components_actual),
                             !.pca_pre_mean[idx] = pca.mean,
                             !.pct_var_expl[idx] = Prefixed(@, ev, n_components_actual),
                             !.n_comp_needed[idx] = n_components_reduced]
                  IN  IF n_components_reduced <= ld.max_pc_to_retain
                      THEN [err |-> "", loader |-> stored,
                            features |-> Vec([t \in 1..n |->
                                SubSeq(pca.scores[t], 1, n_components_reduced)])]
                      ELSE [err |-> "AssertionError: n_components_reduced <= max_pc_to_retain",
                            loader |-> stored, features |-> <<>>]
        ELSE IF ~WasFit(ld, idx)
             THEN raised("AssertionError: n_comp_needed != -1")
             ELSE LET submean == Vec([t \in 1..n |-> Vec([j \in 1..n_features_actual |->
                                     QSub(feats[t][j], ld.pca_pre_mean[idx][j])])])
                      wts == SubSeq(ld.pca_wts[idx], 1, ld.n_comp_needed[idx])
                  IN  [err |-> "", loader |-> ld,
                       features |-> IF wts = <<>> THEN Vec([t \in 1..n |-> <<>>])
                                    ELSE MatMul(submean, Transpose(wts))]

\* ---- the loader as an object a client calls in any order.  The variables
\* the fitting procedure owns stay empty; loader is the object, args the
\* last call, pc how it ended, features and feature_inds_defined what forward
\* returned, result what get_partial_versions returned.
fitVars == <<order, images, voxel_data, trn_size, masks, partial_version_names,
             best_w_params, best_prf_models, best_lambdas, best_losses,
             features_mean, features_std, m, features_m, features_s,
             full_model_improved, pp, cof, vi>>

LoaderCall(call, idx, mode, imgs) ==
    [call |-> call, prf_model_index |-> idx, fitting_mode |-> mode, images |-> imgs]

\* bdcn_features.py lines 16-45, __init__: nothing is declared or stored yet
LoaderInit ==
    /\ \E cfg \in LoaderConfigs :
          loader = [do_pca |-> cfg.do_pca, min_pct_var |-> cfg.min_pct_var,
                    max_pc_to_retain |-> cfg.max_pc_to_retain, raw |-> cfg.raw,
                    declared |-> cfg.declared, inited |-> FALSE, fmaps |-> "none",
                    n_feat_each_prf |-> <<>>, max_features |-> -1,
                    pca_wts |-> <<>>, pca_pre_mean |-> <<>>, pct_var_expl |-> <<>>,
                    n_comp_needed |-> <<>>]
    /\ args = LoaderCall("__init__", -1, FALSE, "none")
    /\ pc = "returned"
    /\ err = ""
    /\ features = <<>>
    /\ feature_inds_defined = <<>>
    /\ result = <<>>
    /\ order = <<>> /\ images = <<>> /\ voxel_data = <<>> /\ trn_size = 0
    /\ masks = <<>> /\ partial_version_names = <<>>
    /\ best_w_params = <<>> /\ best_prf_models = <<>> /\ best_lambdas = <<>>
    /\ best_losses = <<>> /\ features_mean = <<>> /\ features_std = <<>>
    /\ m = 0 /\ features_m = <<>> /\ features_s = <<>>
    /\ full_model_improved = <<>> /\ pp = 0 /\ cof = <<>> /\ vi = 0

Zeros(n) == Vec([i \in 1..n |-> QInt(0)])
MaxOver(f) == CHOOSE x \in Range(f) : \A y \in Range(f) : y <= x

\* bdcn_features.py lines 56-88, init_for_fitting
LoaderInitForFitting ==
    /\ loader' =
         IF loader.do_pca
         THEN [loader EXCEPT
                 !.inited = TRUE,
                 !.n_feat_each_prf = loader.declared,
                 !.max_features = loader.max_pc_to_retain,
                 !.pca_wts = [c \in Prfs |-> Vec([i \in 1..loader.max_pc_to_retain |->
                                                    Zeros(loader.declared[c])])],
                 !.pca_pre_mean = [c \in Prfs |-> Zeros(loader.declared[c])],
                 !.pct_var_expl = [c \in Prfs |-> Zeros(loader.max_pc_to_retain)],
                 !.n_comp_needed = [c \in Prfs |-> -1],
                 !.fmaps = "none"]
         ELSE [loader EXCEPT
                 !.inited = TRUE,
                 !.n_feat_each_prf = loader.declared,
                 !.max_features = MaxOver(loader.declared),
                 !.fmaps = "none"]
    /\ args' = LoaderCall("init_for_fitting", -1, FALSE, "none")
    /\ pc' = "returned"
    /\ err' = ""
    /\ UNCHANGED <<features, feature_inds_defined, result, fitVars>>

\* a faulty variant of the test of line 93: the attribute is taken to exist
HasMaxFeaturesUnchecked(ld) == TRUE
\* bdcn_features.py line 93: max_features exists once init_for_fitting has run
HasMaxFeatures(ld) == ld.inited
\* bdcn_features.py lines 91-99, get_partial_versions
LoaderGetPartialVersions ==
    /\ args' = LoaderCall("get_partial_versions", -1, FALSE, "none")
    /\ IF ~HasMaxFeatures(loader)
       THEN /\ pc' = "raised"
            /\ err' = "RuntimeError: need to run init_for_fitting first"
            /\ UNCHANGED result
       ELSE /\ pc' = "returned"
            /\ err' = ""
            /\ result' = [masks |-> << DefinedMask(loader.max_features, loader.max_features) >>,
                          names |-> << "full_model" >>]
    /\ UNCHANGED <<loader, features, feature_inds_defined, fitVars>>

\* bdcn_features.py lines 135-138, clear_big_features
LoaderClearBigFeatures ==
    /\ loader.fmaps # "none"
    /\ loader' = [loader EXCEPT !.fmaps = "none"]
    /\ args' = LoaderCall("clear_big_features", -1, FALSE, "none")
    /\ pc' = "returned"
    /\ err' = ""
    /\ UNCHANGED <<features, feature_inds_defined, result, fitVars>>

\* bdcn_features.py lines 140-183, forward: the maps of the first call after
\* a clearing are kept and used by the later calls, whatever their images
LoaderForward ==
    \E idx \in Prfs, mode \in BOOLEAN, imgs \in {"trn", "val"} :
      LET maps == IF loader.fmaps = "none" THEN imgs ELSE loader.fmaps
          cached == [loader EXCEPT !.fmaps = maps]
      IN  /\ args' = LoaderCall("forward", idx, mode, imgs)
          /\ UNCHANGED <<result, fitVars>>
          /\ IF ~loader.inited
             THEN /\ loader' = cached
                  /\ pc' = "raised"
                  /\ err' = "AttributeError"
                  /\ UNCHANGED <<features, feature_inds_defined>>
             ELSE \E raw \in {RawMatrix(loader.raw[idx], maps)} :
                  \E red \in {IF loader.do_pca THEN ReducePca(cached, raw, idx, mode)
                              ELSE [err |-> "", loader |-> cached, features |-> raw]} :
                     /\ loader' = red.loader
                     /\ err' = red.err
                     /\ IF red.err # ""
                        THEN /\ pc' = "raised"
                             /\ UNCHANGED <<features, feature_inds_defined>>
                        ELSE /\ pc' = "returned"
                             /\ features' = red.features
                             /\ feature_inds_defined' =
                                  DefinedMask(loader.max_features, NCols(red.features))

LoaderNext ==
    \/ LoaderInitForFitting
    \/ LoaderGetPartialVersions
    \/ LoaderForward
    \/ LoaderClearBigFeatures

LoaderSpec == LoaderInit /\ [][LoaderNext]_vars

\* ---- the two users of the loader protocol side by side: a run of the
\* fitting procedure, or a client that calls the loader in any order
FitPositions == {"split", "init_for_fitting", "get_partial_versions", "extract",
                 "cofactor", "batch", "done", "error"}
ProtocolInit == Init \/ LoaderInit
LoaderIdle == pc \in {"returned", "raised"}
ProtocolNext ==
    \/ SplitTrials
    \/ InitForFitting
    \/ GetPartialVersions
    \/ Extract
    \/ Cofactor
    \/ FitBatch
    \/ Return
    \/ LoaderIdle /\ LoaderInitForFitting
    \/ LoaderIdle /\ LoaderGetPartialVersions
    \/ LoaderIdle /\ LoaderForward
    \/ LoaderIdle /\ LoaderClearBigFeatures
ProtocolSpec == ProtocolInit /\ [][ProtocolNext]_vars

\* ------------------------------------ _cofactor_fn_cpu, statement by statement
\* A tensor is its data with the device and the dtype it is stored in.  args is
\* the call, cof the frame of the function (its locals), result what it
\* returned; the other variables are not used.
Devices == {"cpu", "cuda:0"}
Dtypes == {"float32", "float64"}
Tensor(data, device, dtype) == [data |-> data, device |-> device, dtype |-> dtype]
\* Tensor.to: a new tensor, the operand is left as it is
ToDevice(t, device) == [t EXCEPT !.device = device]
ToDtype(t, dtype) == [t EXCEPT !.dtype = dtype]
\* torch.mm and torch.tensordot need operands stored alike; a sum needs them
\* on one device and takes the wider dtype
SameStorage(a, b) == a.device = b.device /\ a.dtype = b.dtype
Promote(a, b) == IF "float64" \in {a, b} THEN "float64" ELSE a
\* a faulty variant of line 55: the result stays where it was computed
KeepStorage(t, device, dtype) == t
\* line 55: a copy on the given device in the given dtype
ToOrig(t, device, dtype) == ToDtype(ToDevice(t, device), dtype)

CofactorEntries == {0, 1, 2}
CofactorInputs ==
    { << <<QInt(a)>>, <<QInt(b)>> >> : a \in CofactorEntries, b \in CofactorEntries }
    \cup
    { << <<QInt(a), QInt(b)>>, <<QInt(c), QInt(d)>> >> :
        a \in CofactorEntries, b \in CofactorEntries,
        c \in CofactorEntries, d \in CofactorEntries }

cofactorIdle == <<loader, order, images, voxel_data, trn_size, masks,
                  partial_version_names, best_w_params, best_prf_models,
                  best_lambdas, best_losses, features_mean, features_std, m,
                  features, feature_inds_defined, features_m, features_s,
                  full_model_improved, pp, vi>>

CofactorInit ==
    /\ \E data \in CofactorInputs, device \in Devices, dtype \in Dtypes :
          args = [x |-> Tensor(data, device, dtype), lambdas |-> lambdas]
    /\ pc = "line 45"
    /\ err = ""
    /\ cof = <<>>
    /\ result = <<>>
    /\ loader = <<>> /\ order = <<>> /\ images = <<>> /\ voxel_data = <<>>
    /\ trn_size = 0 /\ masks = <<>> /\ partial_version_names = <<>>
    /\ best_w_params = <<>> /\ best_prf_models = <<>> /\ best_lambdas = <<>>
    /\ best_losses = <<>> /\ features_mean = <<>> /\ features_std = <<>>
    /\ m = 0 /\ features = <<>> /\ feature_inds_defined = <<>>
    /\ features_m = <<>> /\ features_s = <<>>
    /\ full_model_improved = <<>> /\ pp = 0 /\ vi = 0

\* lines 45-46
CofactorSaveOrig ==
    /\ pc = "line 45"
    /\ cof' = [x |-> args.x, device_orig |-> args.x.device, type_orig |-> args.x.dtype]
    /\ pc' = "line 48"
    /\ UNCHANGED <<args, err, result, cofactorIdle>>

\* a faulty variant of line 48: the local stays where the input is
StayInPlace(t) == t
\* line 48: the local _x is rebound to a copy on the cpu in float64
ToCpuFloat64(t) == ToDtype(ToDevice(t, "cpu"), "float64")
CofactorToCpu ==
    /\ pc = "line 48"
    /\ cof' = [x |-> ToCpuFloat64(cof.x), device_orig |-> cof.device_orig,
               type_orig |-> cof.type_orig]
    /\ pc' = "line 49"
    /\ UNCHANGED <<args, err, result, cofactorIdle>>

\* line 49: the identity is created on the cpu in float64; the sum with the
\* Gram matrix needs both on one device, and the inverses are stored like the sum
CofactorInvert ==
    /\ pc = "line 49"
    /\ LET eye == Tensor(<<>>, "cpu", "float64")
       IN  IF cof.x.device # eye.device
           THEN /\ pc' = "error"
                /\ err' = "RuntimeError: expected all tensors to be on the same device"
                /\ UNCHANGED cof
           ELSE \E f \in {RidgeInverses(cof.x.data, args.lambdas)} :
                IF CofactorRaises(f)
                THEN /\ pc' = "error"
                     /\ err' = "RuntimeError: singular matrix"
                     /\ UNCHANGED cof
                ELSE /\ cof' = [x |-> cof.x, device_orig |-> cof.device_orig,
                                type_orig |-> cof.type_orig,
                                f |-> Tensor(f, eye.device, Promote(cof.x.dtype, eye.dtype))]
                     /\ pc' = "line 52"
                     /\ err' = ""
    /\ UNCHANGED <<args, result, cofactorIdle>>

\* line 52
CofactorTensordot ==
    /\ pc = "line 52"
    /\ IF ~SameStorage(cof.f, cof.x)
       THEN /\ pc' = "error"
            /\ err' = "RuntimeError: expected both operands stored alike"
            /\ UNCHANGED cof
       ELSE /\ cof' = [x |-> cof.x, device_orig |-> cof.device_orig,
                       type_orig |-> cof.type_orig, f |-> cof.f,
                       cof |-> Tensor(CofactorFnCpu(cof.f.data, cof.x.data),
                                      cof.f.device, cof.f.dtype)]
            /\ pc' = "line 55"
            /\ err' = ""
    /\ UNCHANGED <<args, result, cofactorIdle>>

\* line 55
CofactorReturn ==
    /\ pc = "line 55"
    /\ result' = ToOrig(cof.cof, cof.device_orig, cof.type_orig)
    /\ pc' = "returned"
    /\ UNCHANGED <<args, err, cof, cofactorIdle>>

CofactorNext ==
    \/ CofactorSaveOrig
    \/ CofactorToCpu
    \/ CofactorInvert
    \/ CofactorTensordot
    \/ CofactorReturn

CofactorSpec == CofactorInit /\ [][CofactorNext]_vars

\* --------------------------------------------- _loss_fn, statement by statement
\* args is the call (cofactor, training data, held-out design matrix, held-out
\* data), cof the frame of the function, result what it returned.
LossDesigns ==
    { x \in CofactorInputs : ~CofactorRaises(RidgeInverses(x, lambdas)) /\ x[1][1] = QInt(1) }
LossData ==
    { << <<QInt(a), QInt(1)>>, <<QInt(2), QInt(b)>> >> : a \in {0, 1}, b \in {0, 3} }
LossInit ==
    /\ \E x \in LossDesigns, vtrn \in LossData, vout \in LossData :
       \E xout \in {d \in CofactorInputs : NCols(d) = NCols(x) /\ d[1][1] = QInt(2)} :
          args = [cofactor |-> CofactorFnCpu(RidgeInverses(x, lambdas), x),
                  vtrn |-> vtrn, xout |-> xout, vout |-> vout]
    /\ pc = "line 67"
    /\ err = ""
    /\ cof = <<>>
    /\ result = <<>>
    /\ loader = <<>> /\ order = <<>> /\ images = <<>> /\ voxel_data = <<>>
    /\ trn_size = 0 /\ masks = <<>> /\ partial_version_names = <<>>
    /\ best_w_params = <<>> /\ best_prf_models = <<>> /\ best_lambdas = <<>>
    /\ best_losses = <<>> /\ features_mean = <<>> /\ features_std = <<>>
    /\ m = 0 /\ features = <<>> /\ feature_inds_defined = <<>>
    /\ features_m = <<>> /\ features_s = <<>>
    /\ full_model_improved = <<>> /\ pp = 0 /\ vi = 0

\* line 67
LossBeta ==
    /\ pc = "line 67"
    /\ cof' = [beta |-> LossFnBeta(args.cofactor, args.vtrn)]
    /\ pc' = "line 68"
    /\ UNCHANGED <<args, err, result, cofactorIdle>>

\* lines 68-70
LossReturn ==
    /\ pc = "line 68"
    /\ result' = [beta |-> cof.beta, loss |-> LossFnLoss(cof.beta, args.xout, args.vout)]
    /\ pc' = "returned"
    /\ UNCHANGED <<args, err, cof, cofactorIdle>>

LossNext ==
    \/ LossBeta
    \/ LossReturn

LossSpec == LossInit /\ [][LossNext]_vars

\* ------------------------------------------------- reference computations
\* What a state records is compared with a fit computed afresh from the inputs
\* of the run: the loader's features, the permuted images and voxel data, the
\* split point and the version masks.

\* features and defined mask of candidate c
FeaturesOf(c) ==
    CandidateFeatures(loader.kinds[c], images, trn_size, args.zscore, args.add_bias)
\* mask AND defined, over all columns, for a defined mask and version p
ActiveColumns(defined, p) == Vec([c \in 1..Len(masks) |-> masks[c][p] /\ defined[c]])
\* held-out and training rows of the active columns of a feature matrix whose
\* columns are the defined ones, in order
ActiveBlock(rows, defined, p) ==
    LET act == ActiveColumns(defined, p)
        rank(c) == CountTrue(SubSeq(defined, 1, c))
        cols == BoolIndex(Vec([c \in 1..Len(defined) |-> rank(c)]), act)
    IN  TakeCols(rows, cols)
\* the ridge fit of (candidate c, version p) for all lambdas and all voxels:
\* beta [lambda][active column][voxel], loss [lambda][voxel]
RefFit(c, p) ==
    LET cf == FeaturesOf(c)
        xtrn == ActiveBlock(SliceTo(cf.features, trn_size), cf.feature_inds_defined, p)
        xout == ActiveBlock(SliceFrom(cf.features, trn_size), cf.feature_inds_defined, p)
    IN  LossFn(CofactorFnCpu(RidgeInverses(xtrn, lambdas), xtrn),
               SliceTo(voxel_data, trn_size), xout, SliceFrom(voxel_data, trn_size))
\* smallest loss over the lambdas, and the first lambda index that has it
RefMin(fit, v) ==
    LET col == Vec([li \in 1..Len(fit.loss) |-> fit.loss[li][v]])
        best == CHOOSE li \in 1..Len(col) :
                    /\ \A lj \in 1..Len(col) : ~QLess(col[lj], col[li])
                    /\ \A lj \in 1..(li - 1) : QLess(col[li], col[lj])
    IN  [value |-> col[best], index |-> best - 1]
\* the betas of a fit for lambda index l and voxel v, over the active columns
RefBetas(fit, l, v) == Vec([c \in 1..Len(fit.beta[l + 1]) |-> fit.beta[l + 1][c][v]])
\* a voxel whose responses hold a NaN: every loss of that voxel is NaN
HasNaN(v) == \E t \in 1..Len(voxel_data) : IsNaN(voxel_data[t][v])
\* the weights a state records for voxel v and version p, over all columns
RecordedWeights(v, p) == Vec([c \in 1..Len(masks) |-> best_w_params[v][c][p]])
\* the defined mask the run used for candidate c, from the column count the
\* loader stored for it
DefinedOf(c) ==
    LoaderDefined(loader.n_comp_needed[c]) \o (IF args.add_bias THEN <<TRUE>> ELSE <<>>)
\* the fits of the candidates the run has processed, version p
ProcessedFits(p) == Vec([i \in 1..m |-> RefFit(i - 1, p)])

\* ----------------------------------------------------------------- claims
\* C1: tie-break.  At return the full-model entry of a voxel is that of the
\* first processed candidate that attains the smallest loss: every earlier
\* candidate is strictly worse than the recorded loss, no later candidate is
\* strictly better, and the recorded loss, lambda index and weights are those
\* of the recorded candidate.
TieBreakFirstSeen ==
    pc = "done" =>
        \A fits \in {ProcessedFits(0)} :
        \A v \in 1..n_voxels :
            LET c == best_prf_models[v][0]
            IN  (~HasNaN(v)) =>
                  /\ c \in 0..(m - 1)
                  /\ \A d \in 0..(c - 1) :
                        QLess(best_losses[v][0], RefMin(fits[d + 1], v).value)
                  /\ \A d \in (c + 1)..(m - 1) :
                        ~QLess(RefMin(fits[d + 1], v).value, best_losses[v][0])
                  /\ best_losses[v][0] = RefMin(fits[c + 1], v).value
                  /\ best_lambdas[v][0] = RefMin(fits[c + 1], v).index
                  /\ RecordedWeights(v, 0) =
                        Scatter(ActiveColumns(DefinedOf(c), 0),
                                RefBetas(fits[c + 1], best_lambdas[v][0], v))
\* a run has returned in which a later candidate ties with the recorded one
TieBreakWitness ==
    /\ pc = "done"
    /\ \E v \in 1..n_voxels :
          /\ best_prf_models[v][0] # -1
          /\ \E d \in (best_prf_models[v][0] + 1)..(m - 1) :
                RefMin(RefFit(d, 0), v).value = best_losses[v][0]

\* C2: partial-version coupling.  At the end of every candidate iteration and
\* at return, all partial versions of a voxel record the same candidate; the
\* returned index array is coupled as well.
PartialVersionCoupling ==
    /\ pc \in {"extract", "done"} =>
          \A v \in 1..n_voxels : \A p, q \in Versions :
              best_prf_models[v][p] = best_prf_models[v][q]
    /\ pc = "done" =>
          \A v \in 1..n_voxels : \A p, q \in Versions :
              /\ result.best_prf_models[v][p] = result.best_prf_models[v][q]
              /\ result.best_prf_rows[v][p] = result.best_prf_rows[v][q]
\* a candidate iteration has ended in which a later candidate became the best
\* of a voxel, with two partial versions
PartialVersionCouplingWitness ==
    /\ pc = "extract"
    /\ n_partial_versions = 2
    /\ m >= 2
    /\ \E v \in 1..n_voxels : best_prf_models[v][1] = m - 1

\* C3 (as amended): exhaustive selection.  With debug off, at return every
\* candidate has been processed; for every voxel whose held-out losses are
\* all finite, the full-model best loss is the minimum over all candidates
\* and all lambdas of the held-out loss, and the recorded candidate and
\* lambda index attain it; a voxel whose losses are all NaN is left at the
\* initial entry (loss +infinity, both indices -1).
ExhaustiveSelection ==
    (pc = "done" /\ ~args.debug) =>
        /\ m = n_prfs
        /\ \A fits \in {ProcessedFits(0)} :
           \A v \in 1..n_voxels :
              LET c == best_prf_models[v][0]
                  l == best_lambdas[v][0]
                  losses == {fits[d + 1].loss[k + 1][v] : d \in Prfs, k \in LambdaInds}
              IN  /\ (\A x \in losses : IsFinite(x)) =>
                        /\ c \in Prfs
                        /\ l \in LambdaInds
                        /\ fits[c + 1].loss[l + 1][v] = best_losses[v][0]
                        /\ \A x \in losses : ~QLess(x, best_losses[v][0])
                  /\ (\A x \in losses : IsNaN(x)) =>
                        /\ c = -1
                        /\ l = -1
                        /\ best_losses[v][0] = Inf
\* C3 as stated, for every voxel: the recorded pair attains the minimum
ExhaustiveSelectionEveryVoxel ==
    (pc = "done" /\ ~args.debug) =>
        \A fits \in {ProcessedFits(0)} :
        \A v \in 1..n_voxels :
            LET c == best_prf_models[v][0]
                l == best_lambdas[v][0]
            IN  /\ c \in Prfs
                /\ l \in LambdaInds
                /\ fits[c + 1].loss[l + 1][v] = best_losses[v][0]
                /\ \A d \in Prfs : \A k \in LambdaInds :
                       ~QLess(fits[d + 1].loss[k + 1][v], best_losses[v][0])
\* a non-debug run has returned in which the last candidate is the best of a
\* voxel and beats every earlier candidate, and another voxel has NaN losses
ExhaustiveSelectionWitness ==
    /\ pc = "done"
    /\ ~args.debug
    /\ \E w \in 1..n_voxels : HasNaN(w) /\ best_prf_models[w][0] = -1
    /\ \E v \in 1..n_voxels :
          /\ best_prf_models[v][0] = n_prfs - 1
          /\ \A d \in 0..(n_prfs - 2) :
                QLess(best_losses[v][0], RefMin(RefFit(d, 0), v).value)

\* C4: partial versions follow the full-model winner.  At return the entry of
\* a partial version p > 0 is the fit of version p at the candidate recorded
\* for the full model: its smallest loss over the lambdas, the lambda index of
\* that loss and the betas of that lambda; where the full model has no winner
\* the entry is the initial one.
PartialFollowsFullWinner ==
    pc = "done" =>
        \A v \in 1..n_voxels : \A p \in Versions \ {0} :
            LET c == best_prf_models[v][0]
            IN  IF c = -1
                THEN /\ best_prf_models[v][p] = -1
                     /\ best_lambdas[v][p] = -1
                     /\ best_losses[v][p] = Inf
                     /\ \A col \in 1..max_features : best_w_params[v][col][p] = QInt(0)
                ELSE \A fit \in {RefFit(c, p)} :
                     /\ best_prf_models[v][p] = c
                     /\ best_losses[v][p] = RefMin(fit, v).value
                     /\ best_lambdas[v][p] = RefMin(fit, v).index
                     /\ RecordedWeights(v, p) =
                           Scatter(ActiveColumns(DefinedOf(c), p),
                                   RefBetas(fit, RefMin(fit, v).index, v))
\* a run has returned in which a partial version would have a strictly lower
\* loss at another processed candidate than at the full-model winner
PartialFollowsFullWinnerWitness ==
    /\ pc = "done"
    /\ n_partial_versions = 2
    /\ \E v \in 1..n_voxels :
          /\ best_prf_models[v][0] # -1
          /\ \E d \in 0..(m - 1) :
                QLess(RefMin(RefFit(d, 1), v).value, best_losses[v][1])

RecordedLossFinite ==
    \A v \in DOMAIN best_prf_models : \A p \in DOMAIN best_prf_models[v] :
        best_prf_models[v][p] # -1 => IsFinite(best_losses[v][p])
\* a candidate iteration has ended with a candidate recorded for a non-full
\* version of one voxel, while a voxel with NaN losses has none
RecordedLossFiniteWitness ==
    /\ pc = "extract"
    /\ m >= 1
    /\ n_partial_versions = 2
    /\ \E v, w \in 1..n_voxels :
          /\ best_prf_models[v][1] # -1
          /\ IsFinite(best_losses[v][1])
          /\ HasNaN(w)
          /\ best_prf_models[w][0] = -1

\* the held-out loss of candidate c, version p, for voxel v when the weight
\* row w (over all columns) is applied to the active columns of the held-out
\* block
HeldOutLoss(c, p, v, w) ==
    LET cf == FeaturesOf(c)
        xout == ActiveBlock(SliceFrom(cf.features, trn_size), cf.feature_inds_defined, p)
        wa == BoolIndex(w, ActiveColumns(cf.feature_inds_defined, p))
    IN  QSum(Vec([t \in 1..Len(xout) |->
                 SqResidual(voxel_data[trn_size + t][v], Dot(xout[t], wa))]))

\* C7: round trip.  At the end of every candidate iteration and at return,
\* for every voxel and version with a recorded candidate c and lambda index
\* l, the recorded weights on the active columns are the ridge betas of
\* (c, version, l), and applied to the held-out block of the active columns
\* of c they give the recorded loss.
RoundTrip ==
    pc \in {"extract", "done"} =>
        \A v \in 1..n_voxels : \A p \in Versions :
            LET c == best_prf_models[v][p]
                l == best_lambdas[v][p]
            IN  c # -1 =>
                  /\ l \in LambdaInds
                  /\ BoolIndex(RecordedWeights(v, p), ActiveColumns(DefinedOf(c), p))
                        = RefBetas(RefFit(c, p), l, v)
                  /\ HeldOutLoss(c, p, v, RecordedWeights(v, p)) = best_losses[v][p]
\* a run has returned with a later candidate and the second lambda recorded
\* for a voxel whose recorded loss is not zero
RoundTripWitness ==
    /\ pc = "done"
    /\ \E v \in 1..n_voxels : \E p \in Versions :
          /\ best_prf_models[v][p] >= 1
          /\ best_lambdas[v][p] = 1
          /\ QLess(QInt(0), best_losses[v][p])

\* C8: active columns.  The cofactor of (m, pp) is the ridge cofactor of
\* exactly the training columns where the version mask and the defined mask
\* of the candidate are both true; and in every state outside an error, the
\* recorded weights of a voxel and version with a recorded candidate are zero
\* at every column outside the active set of that candidate and version.
ActiveColumnsOnly ==
    /\ pc = "batch" =>
          \A x \in {ActiveBlock(trn_features, feature_inds_defined, pp)} :
              /\ NCols(x) = CountTrue(ActiveColumns(feature_inds_defined, pp))
              /\ cof = CofactorFnCpu(RidgeInverses(x, lambdas), x)
    /\ pc # "error" =>
          \A v \in DOMAIN best_prf_models : \A p \in Versions :
              LET c == best_prf_models[v][p]
              IN  c # -1 =>
                    \A col \in 1..Len(masks) :
                        ~ActiveColumns(DefinedOf(c), p)[col] =>
                            best_w_params[v][col][p] = QInt(0)
\* a voxel has moved from candidate 0, which defines every column and gave
\* the last feature column a weight other than zero, to a later candidate
\* that does not define that column, and the weight there is zero now
ActiveColumnsOnlyWitness ==
    /\ pc = "extract"
    /\ m >= 2
    /\ loader.n_comp_needed[0] = max_features
    /\ \E v \in 1..n_voxels :
          LET c == best_prf_models[v][0]
          IN  /\ c >= 1
              /\ loader.n_comp_needed[c] < max_features
              /\ best_w_params[v][max_features][0] = QInt(0)
              /\ \A fit \in {RefFit(0, 0)} :
                    RefBetas(fit, RefMin(fit, v).index, v)[max_features] # QInt(0)

\* C9, state part: after the split, the split point is n_trials minus the
\* held-out size, the order is a permutation of the trials, images and voxel
\* data are the inputs reordered by it, the training and held-out blocks of
\* the voxel data are the first trn_size and the remaining rows, and while a
\* candidate is fitted its feature rows are those of the permuted images,
\* split at the same point as the voxel data.
FixedSplitState ==
    order # <<>> =>
        /\ trn_size = NTrials - args.holdout_size
        /\ trn_size > 0
        /\ Len(order) = NTrials
        /\ Range(order) = Trials
        /\ images = [t \in Trials |-> order[t]]
        /\ \E ds \in VoxelDataSets : voxel_data = [t \in Trials |-> ds[images[t]]]
        /\ Len(trn_data) = trn_size
        /\ Len(out_data) = args.holdout_size
        /\ trn_data \o out_data = voxel_data
        /\ pc \in {"cofactor", "batch"} =>
              /\ features = FeaturesOf(m).features
              /\ Len(trn_features) = Len(trn_data)
              /\ Len(out_features) = Len(out_data)
              /\ trn_features \o out_features = features
        /\ pc = "batch" => \A li \in 1..Len(cof) : NCols(cof[li]) = trn_size
\* C9: fixed split.  The state part holds in every state, and no step after
\* the split changes the permutation, the reordered images, the reordered
\* voxel data or the split point.
FixedSplit ==
    /\ []FixedSplitState
    /\ [][pc # "split" => UNCHANGED <<order, images, voxel_data, trn_size>>]_vars
\* the last candidate is being fitted on a split of shuffled trials
FixedSplitWitness ==
    /\ pc = "batch"
    /\ m = n_prfs - 1
    /\ args.shuffle
    /\ order # Identity
    /\ trn_size = NTrials - 1

\* C10: a non-positive training size aborts at once.  A run whose held-out
\* size is at least n_trials is only ever at the split or in the error state
\* of the assertion: the loader is never initialised, no features are
\* extracted, nothing is allocated and nothing is returned.
NonPositiveSplitAborts ==
    n_trials - args.holdout_size <= 0 =>
        /\ pc \in {"split", "error"}
        /\ pc = "error" =>
              /\ err = "AssertionError: Training size needs to be greater than zero"
              /\ trn_size = n_trials - args.holdout_size
        /\ ~loader.inited
        /\ loader.n_comp_needed = <<>>
        /\ order = <<>>
        /\ masks = <<>>
        /\ best_losses = <<>>
        /\ features = <<>>
        /\ cof = <<>>
        /\ result = <<>>
\* the run with a training size of exactly zero has aborted
NonPositiveSplitAbortsWitness ==
    /\ pc = "error"
    /\ trn_size = 0
    /\ args.holdout_size = n_trials
    /\ ~loader.inited

\* ---------------------------------------------------------------- C11
\* C11 (fit-once): a call of forward in fitting mode for a candidate index
\* whose reduction was already fit since the last init_for_fitting raises,
\* and the stored weights, mean, explained variance and component count are
\* after the call what they were before it.
FitOnceStep ==
    (/\ args'.call = "forward"
     /\ args'.fitting_mode
     /\ loader.inited
     /\ loader.do_pca
     /\ loader.n_comp_needed[args'.prf_model_index] # -1)
    => /\ pc' = "raised"
       /\ loader'.pca_wts = loader.pca_wts
       /\ loader'.pca_pre_mean = loader.pca_pre_mean
       /\ loader'.pct_var_expl = loader.pct_var_expl
       /\ loader'.n_comp_needed = loader.n_comp_needed
FitOnce == [][FitOnceStep]_vars

\* a second fitting call for an index was made, with the declared width, and
\* was refused
FitOnceWitness ==
    /\ pc = "raised"
    /\ err = "AssertionError: n_comp_needed == -1"
    /\ args.call = "forward"
    /\ args.fitting_mode
    /\ loader.n_comp_needed[args.prf_model_index] > 0

\* ---------------------------------------------------------------- C12
\* C12: whenever forward was called for a candidate index whose produced
\* column count differs from the width declared for it at init_for_fitting,
\* the call raised, with and without internal reduction.
WidthMismatchIsError ==
    (/\ args.call = "forward"
     /\ loader.inited
     /\ Len(loader.raw[args.prf_model_index])
          # loader.n_feat_each_prf[args.prf_model_index])
    => pc = "raised"

\* ---------------------------------------------------------------- C13
\* C13: when the ridge system X^T X + lambda I of the active training columns
\* is singular for some candidate lambda, the solve ends the run with the
\* runtime error: the recorded bests and the loop position are left as they
\* were, no result is returned, and no step follows an error.
SingularSystem ==
    /\ pc = "cofactor"
    /\ \A x \in {SelectCols(trn_features, nonzero_inds_short(pp))} :
       \A xtx \in {MatMul(Transpose(x), x)} :
          \E li \in 1..Len(lambdas) :
              Det(MatAdd(xtx, ScaledEye(NCols(x), lambdas[li]))) = QInt(0)
SingularPropagatesStep ==
    /\ SingularSystem =>
          /\ pc' = "error"
          /\ err' = "RuntimeError: singular matrix"
          /\ UNCHANGED <<bestVars, m, pp, vi, result>>
    /\ pc # "error"
SingularPropagates ==
    /\ [](err = "RuntimeError: singular matrix" => pc = "error" /\ result = <<>>)
    /\ [][SingularPropagatesStep]_vars

\* the solve failed at candidate 1, after candidate 0 had been recorded for
\* some voxel and with a candidate still to come
SingularPropagatesWitness ==
    /\ pc = "error"
    /\ err = "RuntimeError: singular matrix"
    /\ m = 1
    /\ m + 1 < n_prfs
    /\ \E v \in 1..n_voxels : best_prf_models[v][0] = 0

\* ---------------------------------------------------------------- C14
\* C14 (cofactor identity): for the active training block X of the current
\* candidate and version, the solver's result has one slice per lambda, in
\* the order of the lambda list, each n_features x n_trials, and slice l
\* satisfies (X^T X + lambda_l I) . slice = X^T.
CofactorIdentity ==
    pc = "batch" =>
        \A x \in {SelectCols(trn_features, nonzero_inds_short(pp))} :
        \A xtx \in {MatMul(Transpose(x), x)} :
            /\ Len(cof) = Len(lambdas)
            /\ \A li \in 1..Len(lambdas) :
                  /\ Len(cof[li]) = NCols(x)
                  /\ \A f \in 1..NCols(x) : Len(cof[li][f]) = Len(x)
                  /\ MatMul(MatAdd(xtx, ScaledEye(NCols(x), lambdas[li])), cof[li])
                        = Transpose(x)

\* a solve for at least two active columns whose slices differ between the
\* lambdas
CofactorIdentityWitness ==
    /\ pc = "batch"
    /\ Len(cof[1]) >= 2
    /\ Len(cof[1][1]) >= 2
    /\ cof[1] # cof[2]

\* ---------------------------------------------------------------- C15
\* C15: whatever device and dtype the solver's input is stored in, the
\* inverses are computed on the cpu in float64, the result is returned in the
\* device and dtype of the input, and the caller's input tensor is what it
\* was before the call.
CpuFloat64Inverse ==
    /\ pc \in {"line 52", "line 55", "returned"} =>
          /\ cof.f.device = "cpu"
          /\ cof.f.dtype = "float64"
          /\ cof.f.data = RidgeInverses(args.x.data, args.lambdas)
    /\ pc = "returned" =>
          /\ result.device = args.x.device
          /\ result.dtype = args.x.dtype
          /\ result.data = CofactorFnCpu(cof.f.data, args.x.data)
CpuFloat64 == []CpuFloat64Inverse /\ [][args' = args]_vars

\* a call with an input that is neither on the cpu nor in float64 returned
CpuFloat64Witness ==
    /\ pc = "returned"
    /\ args.x.device = "cuda:0"
    /\ args.x.dtype = "float32"
    /\ cof.f.device = "cpu"
    /\ result.device = "cuda:0"

\* ---------------------------------------------------------------- C16
\* C16 (loss evaluator): the returned weights are beta[l][f][v] = sum over the
\* training trials t of cofactor[l][f][t] * vtrn[t][v], the returned loss is
\* loss[l][v] = sum over the held-out trials t of
\* (vout[t][v] - sum over f of xout[t][f] * beta[l][f][v]) squared, a sum and
\* not a mean, and the four inputs are what they were before the call.
SumOver(S, term(_)) == QSum(Vec([i \in 1..S |-> term(i)]))
LossEvaluatorResult ==
    pc = "returned" =>
        /\ Len(result.beta) = Len(args.cofactor)
        /\ Len(result.loss) = Len(args.cofactor)
        /\ \A l \in 1..Len(args.cofactor) :
              /\ Len(result.beta[l]) = Len(args.cofactor[l])
              /\ Len(result.loss[l]) = NCols(args.vout)
              /\ \A v \in 1..NCols(args.vtrn) :
                    /\ \A f \in 1..Len(args.cofactor[l]) :
                          result.beta[l][f][v] =
                             SumOver(Len(args.vtrn),
                                     LAMBDA t : QMul(args.cofactor[l][f][t], args.vtrn[t][v]))
                    /\ result.loss[l][v] =
                          SumOver(Len(args.vout), LAMBDA t :
                             LET pred == SumOver(NCols(args.xout), LAMBDA f :
                                            QMul(args.xout[t][f], result.beta[l][f][v]))
                                 r == QSub(args.vout[t][v], pred)
                             IN  QMul(r, r))
LossEvaluator == []LossEvaluatorResult /\ [][args' = args]_vars

\* a call with two held-out trials and two features returned a loss that is
\* not zero for some lambda and voxel
LossEvaluatorWitness ==
    /\ pc = "returned"
    /\ Len(args.vout) = 2
    /\ NCols(args.xout) = 2
    /\ \E l \in 1..Len(result.loss) : \E v \in 1..NCols(args.vout) :
          QLess(QInt(0), result.loss[l][v])

\* ---------------------------------------------------------------- C17
\* C17: with z-scoring, at return the statistics recorded for a voxel hold,
\* at every feature column its best full-model candidate defines, the mean
\* and the standard deviation that candidate's column was z-scored with,
\* whatever the partial versions are.
StatsOfBest ==
    (pc = "done" /\ args.zscore) =>
        \A v \in 1..n_voxels :
            LET c == best_prf_models[v][0]
            IN  c # -1 =>
                  \A cf \in {FeaturesOf(c)} :
                  \A col \in 1..cf.n_features_actual :
                      /\ result.features_mean[v][col] = cf.features_m[col]
                      /\ result.features_std[v][col] = cf.features_s[col]
\* the same for loaders with a single version, where it holds
StatsOfBestSingleVersion == n_partial_versions = 1 => StatsOfBest

\* ---------------------------------------------------------------- C18
\* C18: a batch step that flags a voxel improved for the current candidate
\* and version completes for every combination of zscore and add_bias: it
\* raises nothing, and with z-scoring the voxel's statistics at every active
\* feature column, the last feature column included, are the candidate's.
UpdateCompletesStep ==
    pc = "batch" =>
        \A v \in 1..n_voxels :
            (best_prf_models[v][pp] # m /\ best_prf_models'[v][pp] = m) =>
                /\ pc' # "error"
                /\ best_losses'[v][pp] # Inf
                /\ best_lambdas'[v][pp] # -1
                /\ args.zscore =>
                      \A col \in 1..max_features :
                          nonzero_inds_full(pp)[col] =>
                              /\ features_mean'[v][col] = features_m[col]
                              /\ features_std'[v][col] = features_s[col]
UpdateCompletes == [][UpdateCompletesStep]_vars
\* the same for the three other combinations of the options, where it holds
UpdateCompletesOtherOptions ==
    [][(~args.zscore \/ args.add_bias) => UpdateCompletesStep]_vars

\* ---------------------------------------------------------------- C19
\* C19: in debug mode only candidates 0 and 1 are processed, and for each of
\* them no more than the first two voxel batches.
DebugTruncatesCandidates ==
    args.debug => (pc \in {"cofactor", "batch"} => m <= 1)
DebugTruncates ==
    /\ DebugTruncatesCandidates
    /\ args.debug => (pc = "batch" => vi <= 1)

\* ---------------------------------------------------------------- C20
\* C20 (exactly-once enumeration and termination): in a run without debug
\* that raises no error, candidates are extracted once each in increasing
\* index order, every (candidate, version) has one cofactor solve, made before
\* its first voxel batch, every (candidate, version, batch) has one loss
\* evaluation, versions go in order from 0, the run returns only after the
\* last candidate, and it does come to an end: every step moves the run
\* forward in the finite order of its positions, and a run that has neither
\* returned nor raised stands at a candidate, version and batch that exist.
Extracted(ld, c) == ld.n_comp_needed[c] # -1
ExactlyOnceStep ==
    (~args.debug /\ pc' # "error") =>
        /\ (pc = "extract" /\ pc' = "cofactor") =>
              /\ m' = m /\ pp' = 0
              /\ \A c \in Prfs : Extracted(loader, c) <=> c < m
              /\ \A c \in Prfs : Extracted(loader', c) <=> c <= m
        /\ (pc = "extract" /\ pc' = "done") =>
              /\ m = n_prfs
              /\ \A c \in Prfs : Extracted(loader, c)
        /\ pc = "cofactor" =>
              /\ pc' = "batch"
              /\ m' = m /\ pp' = pp /\ vi' = 0
        /\ pc = "batch" =>
              /\ m' >= m
              /\ IF (vi + 1) * args.voxel_batch_size < n_voxels
                 THEN pc' = "batch" /\ m' = m /\ pp' = pp /\ vi' = vi + 1
                 ELSE IF pp + 1 < n_partial_versions
                 THEN pc' = "cofactor" /\ m' = m /\ pp' = pp + 1
                 ELSE pc' = "extract" /\ m' = m + 1
        /\ pc \in {"cofactor", "batch"} => loader' = loader
\* the positions of a run in the order the code visits them
BatchesPerVersion == (n_voxels + args.voxel_batch_size - 1) \div args.voxel_batch_size
PositionsPerCandidate == 1 + n_partial_versions * (1 + BatchesPerVersion)
LastPosition == 3 + (n_prfs + 1) * (1 + NVoxels * (2 + NVoxels)) + 1
Position ==
    CASE pc = "split" -> 0
      [] pc = "init_for_fitting" -> 1
      [] pc = "get_partial_versions" -> 2
      [] pc = "extract" -> 3 + m * PositionsPerCandidate
      [] pc = "cofactor" -> 3 + m * PositionsPerCandidate + 1 + pp * (1 + BatchesPerVersion)
      [] pc = "batch" -> 3 + m * PositionsPerCandidate + 1 + pp * (1 + BatchesPerVersion)
                           + 1 + vi
      [] OTHER -> LastPosition
ExactlyOnce ==
    /\ [][ExactlyOnceStep]_vars
    /\ [][~args.debug => Position < Position']_vars
    /\ [](~args.debug =>
            /\ Position <= LastPosition
            /\ pc \in {"split", "init_for_fitting", "get_partial_versions",
                       "extract", "cofactor", "batch", "done", "error"}
            /\ pc = "extract" => m <= n_prfs
            /\ pc \in {"cofactor", "batch"} => m < n_prfs /\ pp < n_partial_versions
            /\ pc = "batch" => vi * args.voxel_batch_size < n_voxels
            /\ pc = "done" => m = n_prfs)

\* a run without debug has returned after all candidates, two versions and
\* one batch per voxel
ExactlyOnceWitness ==
    /\ pc = "done"
    /\ ~args.debug
    /\ m = n_prfs
    /\ n_partial_versions = 2
    /\ args.voxel_batch_size = 1
    /\ \A c \in Prfs : Extracted(loader, c)

\* ---------------------------------------------------------------- C21
\* C21: with add_bias, the constant-one column is the last column, it is
\* defined for the candidate at hand and in the mask of every version, so it
\* is an active column of every ridge solve; and at return the recorded bias
\* of a voxel and version is the coefficient of that column in the ridge fit
\* of the recorded candidate at the recorded lambda.
BiasAlwaysActive ==
    args.add_bias =>
        /\ pc \in {"cofactor", "batch"} =>
              /\ Len(masks) = max_features + 1
              /\ feature_inds_defined[Len(masks)]
              /\ \A t \in 1..Len(features) : features[t][NCols(features)] = QInt(1)
              /\ \A p \in Versions : masks[Len(masks)][p]
              /\ nonzero_inds_full(pp)[Len(masks)]
        /\ pc = "batch" =>
              Len(cof[1]) = 1 + CountTrue(SliceTo(nonzero_inds_full(pp), max_features))
        /\ pc = "done" =>
              \A v \in 1..n_voxels : \A p \in Versions :
                  LET c == best_prf_models[v][p]
                  IN  c # -1 =>
                        \A fit \in {RefFit(c, p)} :
                            LET b == RefBetas(fit, best_lambdas[v][p], v)
                            IN  result.best_bias[v][p] = b[Len(b)]

\* a run with bias has returned a recorded bias that is neither the initial
\* one nor zero, for a partial version
BiasAlwaysActiveWitness ==
    /\ pc = "done"
    /\ args.add_bias
    /\ n_partial_versions = 2
    /\ \E v \in 1..n_voxels :
          /\ best_prf_models[v][1] # -1
          /\ result.best_bias[v][1] \notin {QInt(0), QInt(1)}

\* ---------------------------------------------------------------- C22
\* C22 (loader protocol): a run of the fitting procedure calls
\* init_for_fitting once, then get_partial_versions once, both before the
\* first extraction, and the version masks and names stay as they are from
\* then on; and a get_partial_versions call on a loader that init_for_fitting
\* never initialised raises the RuntimeError.
ProtocolStep ==
    /\ pc \in FitPositions =>
          /\ pc' # "split"
          /\ pc' = "init_for_fitting" => pc = "split"
          /\ pc' = "get_partial_versions" => pc = "init_for_fitting"
          /\ pc' = "extract" => pc \in {"get_partial_versions", "batch"}
          /\ pc = "init_for_fitting" => ~loader.inited /\ loader'.inited
          /\ pc # "init_for_fitting" => loader'.inited = loader.inited
          /\ pc = "get_partial_versions" => masks = <<>> /\ (pc' # "error" => masks' # <<>>)
          /\ pc # "get_partial_versions" => UNCHANGED <<masks, partial_version_names>>
    /\ (pc \in {"returned", "raised"} /\ args'.call = "get_partial_versions"
          /\ ~loader.inited) =>
          /\ pc' = "raised"
          /\ err' = "RuntimeError: need to run init_for_fitting first"
          /\ UNCHANGED <<loader, result>>
ProtocolOrder ==
    /\ [][ProtocolStep]_vars
    /\ [](pc \in {"extract", "cofactor", "batch", "done"} =>
             /\ loader.inited
             /\ masks # <<>>
             /\ partial_version_names = loader.versions.names)

\* a run has gone through both calls and all candidates and has returned
ProtocolOrderWitness ==
    /\ pc = "done"
    /\ loader.inited
    /\ m = n_prfs
    /\ Len(partial_version_names) = 2

\* ---------------------------------------------------------------- C23
\* C23 (independent voxel batches): the batches of one (candidate, version)
\* are pairwise disjoint and cover the voxels; a batch step leaves the best
\* state and the improvement flag of every voxel outside the batch as they
\* were, and gives every voxel of the batch the entries that follow from that
\* voxel's own data, own best state and own flag alone (with the candidate's
\* features and cofactor, which no batch writes).  The batches therefore
\* commute.
\* what the update of voxel v alone would record, from v's own entries
OwnUpdate(v) ==
    LET lf == LossFn(cof, TakeCols(trn_data, <<v>>),
                     SelectCols(out_features, nonzero_inds_short(pp)),
                     TakeCols(out_data, <<v>>))
        mn == TorchMin(lf.loss, 1)
        imp == ImpFlag(pp, mn.value, best_losses[v][pp], full_model_improved[v])
        old == Vec([c \in 1..Len(masks) |-> best_w_params[v][c][pp]])
    IN  [imp |-> imp,
         flag |-> IF pp = 0 THEN imp ELSE full_model_improved[v],
         loss |-> IF imp THEN mn.value ELSE best_losses[v][pp],
         lambda |-> IF imp THEN mn.index ELSE best_lambdas[v][pp],
         model |-> IF imp THEN m ELSE best_prf_models[v][pp],
         weights |-> IF imp
                     THEN NewWeights(old, nonzero_inds_full(pp),
                                     SelectAlongAxis(lf.beta, mn.index, 1))
                     ELSE old]
BatchesIndependentStep ==
    pc = "batch" =>
        LET nb == (n_voxels + args.voxel_batch_size - 1) \div args.voxel_batch_size
            batch(i) == Range(BatchRange(n_voxels, args.voxel_batch_size, i))
        IN  /\ \A v \in 1..n_voxels : \E i \in 0..(nb - 1) :
                  /\ v \in batch(i)
                  /\ \A j \in 0..(nb - 1) : v \in batch(j) => j = i
            /\ \A v \in (1..n_voxels) \ batch(vi) :
                  /\ full_model_improved'[v] = full_model_improved[v]
                  /\ best_losses'[v] = best_losses[v]
                  /\ best_lambdas'[v] = best_lambdas[v]
                  /\ best_prf_models'[v] = best_prf_models[v]
                  /\ best_w_params'[v] = best_w_params[v]
                  /\ args.zscore =>
                        /\ features_mean'[v] = features_mean[v]
                        /\ features_std'[v] = features_std[v]
            /\ \A v \in batch(vi) : \A u \in {OwnUpdate(v)} :
                  /\ full_model_improved'[v] = u.flag
                  /\ best_losses'[v][pp] = u.loss
                  /\ best_lambdas'[v][pp] = u.lambda
                  /\ best_prf_models'[v][pp] = u.model
                  /\ pc' # "error" =>
                        /\ \A c \in 1..Len(masks) : best_w_params'[v][c][pp] = u.weights[c]
                        /\ (args.zscore /\ u.imp) =>
                              /\ features_mean'[v] =
                                    NewStats(nonzero_inds_full(pp), nonzero_inds_short(pp),
                                             features_m)
                              /\ features_std'[v] =
                                    NewStats(nonzero_inds_full(pp), nonzero_inds_short(pp),
                                             features_s)
                        /\ (args.zscore /\ ~u.imp) =>
                              /\ features_mean'[v] = features_mean[v]
                              /\ features_std'[v] = features_std[v]
Variance(col) ==
    LET mu == ColMean(col)
    IN  QDiv(QSum(Vec([t \in 1..Len(col) |-> SqResidual(col[t], mu)])), QInt(Len(col)))
TrainingStatsOnly ==
    (pc \in {"cofactor", "batch"} /\ args.zscore) =>
        \A raw \in {LoaderFeatures(loader.kinds[m], images)} :
        \A f \in 1..NCols(raw) :
            LET col == Column(SliceTo(raw, trn_size), f)
            IN  /\ features_m[f] = ColMean(col)
                /\ QMul(features_s[f], features_s[f]) = Variance(col)
\* the statistics are those of all trials, held-out ones included
AllTrialsStats ==
    (pc \in {"cofactor", "batch"} /\ args.zscore) =>
        \A raw \in {LoaderFeatures(loader.kinds[m], images)} :
        \A f \in 1..NCols(raw) :
            LET col == Column(raw, f)
            IN  /\ features_m[f] = ColMean(col)
                /\ QMul(features_s[f], features_s[f]) = Variance(col)

\* ---------------------------------------------------------------- C25
\* C25 (reduction state machine, loader with PCA): init_for_fitting sets the
\* component count of every index to -1; a fitting-mode extraction that
\* succeeds takes its index, and no other, from -1 to a count between 0 and
\* max_pc_to_retain; a validation-mode extraction succeeds only for an index
\* that is fit, raises the assertion error for one that is not, and leaves
\* the stored weights, means, explained variances and counts as they were.
StoredReduction(ld) ==
    <<ld.pca_wts, ld.pca_pre_mean, ld.pct_var_expl, ld.n_comp_needed>>
ReductionStep ==
    loader.do_pca =>
        /\ args'.call = "init_for_fitting" =>
              \A c \in Prfs : loader'.n_comp_needed[c] = -1
        /\ args'.call \in {"get_partial_versions", "clear_big_features"} =>
              StoredReduction(loader') = StoredReduction(loader)
        /\ (args'.call = "forward" /\ loader.inited) =>
              LET idx == args'.prf_model_index
              IN  IF args'.fitting_mode
                  THEN /\ pc' = "returned" =>
                            /\ loader.n_comp_needed[idx] = -1
                            /\ loader'.n_comp_needed[idx] \in 0..loader.max_pc_to_retain
                            /\ \A c \in Prfs \ {idx} :
                                  /\ loader'.n_comp_needed[c] = loader.n_comp_needed[c]
                                  /\ loader'.pca_wts[c] = loader.pca_wts[c]
                                  /\ loader'.pca_pre_mean[c] = loader.pca_pre_mean[c]
                                  /\ loader'.pct_var_expl[c] = loader.pct_var_expl[c]
                       /\ pc' = "raised" =>
                            StoredReduction(loader') = StoredReduction(loader)
                  ELSE /\ pc' = "returned" => loader.n_comp_needed[idx] # -1
                       /\ loader.n_comp_needed[idx] = -1 =>
                            /\ pc' = "raised"
                            /\ SubSeq(err', 1, 14) = "AssertionError"
                       /\ StoredReduction(loader') = StoredReduction(loader)
ReductionStates ==
    /\ [][ReductionStep]_vars
    /\ []((loader.do_pca /\ loader.inited) =>
             \A c \in Prfs : loader.n_comp_needed[c] \in -1..loader.max_pc_to_retain)

\* a validation-mode extraction has succeeded for an index that is fit with
\* at least one component, while another index is still never-fit
ReductionStatesWitness ==
    /\ pc = "returned"
    /\ args.call = "forward"
    /\ ~args.fitting_mode
    /\ loader.do_pca
    /\ loader.n_comp_needed[args.prf_model_index] >= 1
    /\ NCols(features) >= 1
    /\ \E c \in Prfs : loader.n_comp_needed[c] = -1

\* ---------------------------------------------------------------- C26
\* C26: after a fitting-mode extraction with reduction has returned, the
\* number of returned columns is the smallest k whose cumulative explained
\* variance exceeds min_pct_var, or the number of computed components when
\* none does, and that number is the stored component count of the index.
ComputedVariances ==
    LET idx == args.prf_model_index
        ncomp == Min(Min(loader.max_pc_to_retain, Len(loader.raw[idx])), Len(features))
    IN  SubSeq(loader.pct_var_expl[idx], 1, ncomp)
FittingReturned ==
    /\ pc = "returned"
    /\ args.call = "forward"
    /\ args.fitting_mode
    /\ loader.do_pca
RetainsEnoughComponents ==
    FittingReturned =>
        \A cs \in {CumSum(ComputedVariances)} :
            LET k == NCols(features)
                exceeds(j) == QLess(QInt(loader.min_pct_var), cs[j])
            IN  /\ loader.n_comp_needed[args.prf_model_index] = k
                /\ IF \E j \in 1..Len(cs) : exceeds(j)
                   THEN /\ k \in 1..Len(cs)
                        /\ exceeds(k)
                        /\ \A j \in 1..(k - 1) : ~exceeds(j)
                   ELSE k = Len(cs)
\* what is returned instead: one column fewer than that whenever the
\* threshold is exceeded
RetainsOneFewer ==
    FittingReturned =>
        \A cs \in {CumSum(ComputedVariances)} :
            LET k == NCols(features)
                exceeds(j) == QLess(QInt(loader.min_pct_var), cs[j])
            IN  /\ loader.n_comp_needed[args.prf_model_index] = k
                /\ IF \E j \in 1..Len(cs) : exceeds(j)
                   THEN /\ k + 1 \in 1..Len(cs)
                        /\ exceeds(k + 1)
                        /\ \A j \in 1..k : ~exceeds(j)
                   ELSE k = Len(cs)


\* ---------------------------------------------------------------------------
\* C27  Sentinel consistency.  From the allocation on, and so at the end of
\* every candidate iteration, for every voxel and every partial version the
\* recorded candidate index is -1 exactly when the recorded lambda index is
\* -1, and for the full-model version exactly when the recorded loss is
\* +infinity; a recorded candidate index lies in 0..n_prfs-1 and a recorded
\* lambda index in 0..n_lambdas-1.
SentinelsConsistent ==
    \A v \in DOMAIN best_prf_models : \A p \in DOMAIN best_prf_models[v] :
        /\ (best_prf_models[v][p] = -1) <=> (best_lambdas[v][p] = -1)
        /\ p = 0 => ((best_prf_models[v][p] = -1) <=> (best_losses[v][p] = Inf))
        /\ best_prf_models[v][p] # -1 => best_prf_models[v][p] \in 0..(n_prfs - 1)
        /\ best_lambdas[v][p] # -1 => best_lambdas[v][p] \in LambdaInds
\* a candidate iteration has ended with one voxel recorded for two versions
\* and another voxel still holding the three sentinels
SentinelsConsistentWitness ==
    /\ pc = "extract"
    /\ m >= 1
    /\ n_partial_versions = 2
    /\ \E v, w \in 1..n_voxels :
          /\ best_prf_models[v][0] \in 0..(n_prfs - 1)
          /\ best_lambdas[v][1] \in LambdaInds
          /\ best_losses[v][0] # Inf
          /\ best_prf_models[w][0] = -1
          /\ best_lambdas[w][0] = -1
          /\ best_losses[w][0] = Inf


\* ---------------------------------------------------------------------------
\* C28  Monotonic progress of the full model.  In every step of the candidate
\* loop each voxel's full-model best loss either stays or strictly decreases,
\* and its full-model best candidate index either stays or becomes the index
\* of the candidate being processed, which is never lower than the index it
\* replaces.
FullModelProgressStep ==
    \A v \in (DOMAIN best_losses) \cap (DOMAIN best_losses') :
        /\ \/ best_losses'[v][0] = best_losses[v][0]
           \/ QLess(best_losses'[v][0], best_losses[v][0])
        /\ \/ best_prf_models'[v][0] = best_prf_models[v][0]
           \/ /\ best_prf_models'[v][0] = m
              /\ best_prf_models'[v][0] > best_prf_models[v][0]
FullModelProgress == [][FullModelProgressStep]_vars
\* two candidates are done: one voxel has moved on to a later candidate, with
\* a finite loss, and another voxel has kept the first candidate
FullModelProgressWitness ==
    /\ pc = "extract"
    /\ m >= 2
    /\ \E v, w \in 1..n_voxels :
          /\ best_prf_models[v][0] >= 1
          /\ IsFinite(best_losses[v][0])
          /\ best_prf_models[w][0] = 0


\* ---------------------------------------------------------------------------
\* C29  No sentinel at return.  When every held-out loss of candidate 0, for
\* every version, lambda and voxel, is finite, then from the end of the first
\* candidate iteration on every voxel has a processed candidate recorded for
\* every partial version (candidate 0 right after the first iteration), and
\* at return the rows looked up in prf_models are the recorded indices, none
\* of them the sentinel.
FirstCandidateFinite(fits) ==
    \A p \in DOMAIN fits : \A l \in 1..Len(fits[p].loss) :
        \A v \in 1..n_voxels : IsFinite(fits[p].loss[l][v])
NoSentinelAtReturn ==
    (pc \in {"extract", "done"} /\ m >= 1) =>
        \A fits \in {[p \in Versions |-> RefFit(0, p)]} :
            FirstCandidateFinite(fits) =>
                /\ \A v \in 1..n_voxels : \A p \in Versions :
                      best_prf_models[v][p] \in 0..(m - 1)
                /\ pc = "done" =>
                      \A v \in 1..n_voxels : \A p \in Versions :
                          /\ result.best_prf_models[v][p] # -1
                          /\ result.best_prf_rows[v][p] = best_prf_models[v][p]
\* a run with two versions has returned, every loss of candidate 0 was
\* finite, and one voxel ended with a later candidate for the second version
NoSentinelAtReturnWitness ==
    /\ pc = "done"
    /\ n_partial_versions = 2
    /\ FirstCandidateFinite([p \in Versions |-> RefFit(0, p)])
    /\ \E v \in 1..n_voxels : best_prf_models[v][1] >= 1
    /\ \E v \in 1..n_voxels : best_prf_models[v][1] = 0


\* ---------------------------------------------------------------------------
\* C30  Batch-size independence.  The best state a run returns is a function
\* of the inputs in which voxel_batch_size does not occur: for every voxel
\* the full-model winner is the first processed candidate with the smallest
\* loss below +infinity, and the loss, lambda index, candidate index and
\* weights of every version are those of that candidate's fit of the voxel
\* (the allocated values where there is no winner).  Two runs on the same
\* inputs, one voxel per batch or all voxels in one batch, so return the same
\* losses, lambda indices, candidate indices and weights.
\* the full-model winner of voxel v among the processed candidates, -1 if none
ExpectedWinner(fits0, v) ==
    LET vals == [c \in 0..(m - 1) |-> RefMin(fits0[c + 1], v).value]
        good == {c \in 0..(m - 1) : QLess(vals[c], Inf)}
    IN  IF good = {} THEN -1
        ELSE CHOOSE c \in good :
                \A d \in good : /\ d < c => QLess(vals[c], vals[d])
                                /\ d > c => ~QLess(vals[d], vals[c])
\* the entry of voxel v and version p that follows from the inputs alone
ExpectedBest(fits, v, p) ==
    LET c == ExpectedWinner(fits[0], v)
    IN  IF c = -1
        THEN [model |-> -1, lambda |-> -1, loss |-> Inf,
              weights |-> Vec([col \in 1..Len(masks) |->
                                 IF col <= max_features THEN QInt(0) ELSE QInt(1)])]
        ELSE LET mn == RefMin(fits[p][c + 1], v)
             IN  [model |-> c, lambda |-> mn.index, loss |-> mn.value,
                  weights |-> Scatter(ActiveColumns(DefinedOf(c), p),
                                      RefBetas(fits[p][c + 1], mn.index, v))]
BatchSizeIndependent ==
    pc = "done" =>
        \A fits \in {[p \in Versions |-> ProcessedFits(p)]} :
        \A v \in 1..n_voxels : \A p \in Versions :
        \A e \in {ExpectedBest(fits, v, p)} :
            /\ result.best_prf_models[v][p] = e.model
            /\ result.best_lambdas[v][p] = e.lambda
            /\ result.best_losses[v][p] = e.loss
            /\ RecordedWeights(v, p) = e.weights
            /\ \A col \in 1..max_features :
                  result.best_w_params[v][col][p] = e.weights[col]
\* a run with all voxels in one batch has returned, and two voxels of that
\* batch ended with different candidates or different lambda indices
BatchSizeIndependentWitness ==
    /\ pc = "done"
    /\ n_voxels > 1
    /\ args.voxel_batch_size = n_voxels
    /\ \E v, w \in 1..n_voxels :
          /\ best_prf_models[v][0] # -1
          /\ best_prf_models[w][0] # -1
          /\ \/ best_prf_models[v][0] # best_prf_models[w][0]
             \/ best_lambdas[v][0] # best_lambdas[w][0]
\* the same for a returned run with one voxel per batch
OneVoxelPerBatchReturned ==
    /\ pc = "done"
    /\ n_voxels > 1
    /\ args.voxel_batch_size = 1
    /\ \E v, w \in 1..n_voxels :
          /\ best_prf_models[v][0] # -1
          /\ best_prf_models[w][0] # -1
          /\ \/ best_prf_models[v][0] # best_prf_models[w][0]
             \/ best_lambdas[v][0] # best_lambdas[w][0]

=============================================================================
